---------------------------- MODULE Spec2Model ----------------------------
(***************************************************************************)
(* Decision/gating engine of the WhatsApp assistant: Router (router.py),  *)
(* RateLimiter (rate_limiter.py), StateManager (state_manager.py), the     *)
(* shared predicates of utils.py, the classifier wrapper of               *)
(* claude_client.py and the orchestrator of main.py.                       *)
(*                                                                         *)
(* Text is modelled as a tuple of one-character strings, so that lower(),  *)
(* upper(), strip(), slicing, substring search and f-string formatting are *)
(* computed character by character.  Time is in seconds since the start of *)
(* the run; the local clock and the configured timezone coincide.          *)
(***************************************************************************)
EXTENDS Integers, Sequences, FiniteSets, TLC

(***************************************************************************)
(* Bounds of the model                                                     *)
(***************************************************************************)
\* the clock is read within the first hour and at the start of days 1..MaxDay
MaxDay == 1
\* at most MaxReplies replies are recorded in one run
MaxReplies == 2

(***************************************************************************)
(* Program constants                                                       *)
(***************************************************************************)
\* state_manager.py:223  cutoff = now - since_hours * 3600
SecondsPerHour == 3600
\* state_manager.py:192  cutoff = now - 24 * 3600
HoursPerDay == 24
\* router.py:154  message[:100]
ReasonPrefixLen == 100

(***************************************************************************)
(* String literals of the source, as character tuples                      *)
(***************************************************************************)
S_BotDisabled ==
    <<"B", "o", "t", " ", "d", "i", "s", "a", "b", "l", "e", "d", ":", " ">>
S_Unknown ==
    <<"U", "n", "k", "n", "o", "w", "n">>
S_UserSaid ==
    <<"U", "s", "e", "r", " ", "s", "a", "i", "d", ":", " ">>
S_MediaOnly ==
    <<"M", "e", "d", "i", "a", "-", "o", "n", "l", "y", " ", "(">>
S_Close ==
    <<")">>
S_StopDetected ==
    <<"S", "t", "o", "p", " ", "k", "e", "y", "w", "o", "r", "d", " ", "d", "e", "t", "e", "c", "t", "e", "d", " ", "-", " ", "b", "o", "t", " ", "d", "i", "s", "a", "b", "l", "e", "d">>
S_Emergency ==
    <<"E", "m", "e", "r", "g", "e", "n", "c", "y", " ", "k", "e", "y", "w", "o", "r", "d", " ", "d", "e", "t", "e", "c", "t", "e", "d">>
S_AutoReplyOff ==
    <<"A", "u", "t", "o", "-", "r", "e", "p", "l", "y", " ", "d", "i", "s", "a", "b", "l", "e", "d", " ", "g", "l", "o", "b", "a", "l", "l", "y">>
S_OutsideHours ==
    <<"O", "u", "t", "s", "i", "d", "e", " ", "a", "l", "l", "o", "w", "e", "d", " ", "h", "o", "u", "r", "s", " ", "(">>
S_Dash ==
    <<"-">>
S_BusyOff ==
    <<"B", "u", "s", "y", " ", "m", "o", "d", "e", " ", "i", "s", " ", "O", "F", "F">>
S_RateLimit ==
    <<"R", "a", "t", "e", " ", "l", "i", "m", "i", "t", ":", " ">>
S_HourlyLimit ==
    <<"H", "o", "u", "r", "l", "y", " ", "l", "i", "m", "i", "t", " ", "r", "e", "a", "c", "h", "e", "d", " ", "(">>
S_DailyLimit ==
    <<"D", "a", "i", "l", "y", " ", "l", "i", "m", "i", "t", " ", "r", "e", "a", "c", "h", "e", "d", " ", "(">>
S_Slash ==
    <<"/">>
S_OK ==
    <<"O", "K">>
S_Logistical ==
    <<"L", "o", "g", "i", "s", "t", "i", "c", "a", "l", " ", "m", "e", "s", "s", "a", "g", "e", " ", "(", "c", "o", "n", "f", "i", "d", "e", "n", "c", "e", ":", " ">>
S_Emotional ==
    <<"E", "m", "o", "t", "i", "o", "n", "a", "l", " ", "m", "e", "s", "s", "a", "g", "e", " ", "(", "c", "o", "n", "f", "i", "d", "e", "n", "c", "e", ":", " ">>
S_Conflict ==
    <<"C", "o", "n", "f", "l", "i", "c", "t", " ", "m", "e", "s", "s", "a", "g", "e", " ", "(", "c", "o", "n", "f", "i", "d", "e", "n", "c", "e", ":", " ">>
S_UnknownClass ==
    <<"U", "n", "k", "n", "o", "w", "n", " ", "c", "l", "a", "s", "s", "i", "f", "i", "c", "a", "t", "i", "o", "n", ":", " ">>
S_ClassFailed ==
    <<"C", "l", "a", "s", "s", "i", "f", "i", "c", "a", "t", "i", "o", "n", " ", "f", "a", "i", "l", "e", "d", ":", " ">>
S_ProactiveOff ==
    <<"P", "r", "o", "a", "c", "t", "i", "v", "e", " ", "m", "e", "s", "s", "a", "g", "i", "n", "g", " ", "d", "i", "s", "a", "b", "l", "e", "d">>
S_AlreadySent ==
    <<"A", "l", "r", "e", "a", "d", "y", " ", "s", "e", "n", "t", " ">>
S_UnansweredTail ==
    <<" ", "u", "n", "a", "n", "s", "w", "e", "r", "e", "d", " ", "p", "r", "o", "a", "c", "t", "i", "v", "e", " ", "m", "e", "s", "s", "a", "g", "e", "(", "s", ")">>
S_NoLastIncoming ==
    <<"N", "o", " ", "l", "a", "s", "t", " ", "i", "n", "c", "o", "m", "i", "n", "g", " ", "m", "e", "s", "s", "a", "g", "e", " ", "t", "i", "m", "e", " ", "t", "r", "a", "c", "k", "e", "d">>
S_SilenceDuration ==
    <<"S", "i", "l", "e", "n", "c", "e", " ", "d", "u", "r", "a", "t", "i", "o", "n", " ">>
S_BelowThreshold ==
    <<"m", "i", "n", " ", "<", " ", "t", "h", "r", "e", "s", "h", "o", "l", "d", " ">>
S_Min ==
    <<"m", "i", "n">>
S_OutsideProactive ==
    <<"O", "u", "t", "s", "i", "d", "e", " ", "p", "r", "o", "a", "c", "t", "i", "v", "e", " ", "h", "o", "u", "r", "s", " ", "(">>
S_Silence ==
    <<"S", "i", "l", "e", "n", "c", "e", " ">>
S_Exceeded ==
    <<"m", "i", "n", " ", "e", "x", "c", "e", "e", "d", "e", "d", " ", "t", "h", "r", "e", "s", "h", "o", "l", "d", ",", " ", "s", "e", "n", "d", "i", "n", "g", " ", "p", "r", "o", "a", "c", "t", "i", "v", "e", " ", "m", "e", "s", "s", "a", "g", "e">>

(***************************************************************************)
(* str methods used by the source                                          *)
(***************************************************************************)
UpperLetters ==
    <<"A", "B", "C", "D", "E", "F", "G", "H", "I", "J", "K", "L", "M",
      "N", "O", "P", "Q", "R", "S", "T", "U", "V", "W", "X", "Y", "Z">>
LowerLetters ==
    <<"a", "b", "c", "d", "e", "f", "g", "h", "i", "j", "k", "l", "m",
      "n", "o", "p", "q", "r", "s", "t", "u", "v", "w", "x", "y", "z">>
Digits ==
    <<"0", "1", "2", "3", "4", "5", "6", "7", "8", "9">>
Whitespace == {" ", "\t", "\n"}

IndexIn(c, table) ==
    CHOOSE i \in 1..Len(table) : table[i] = c

\* str.lower() and str.upper() on one character, as lookup tables over the
\* letters; every other character is left as it is
LowerChar ==
    [c \in {UpperLetters[i] : i \in 1..Len(UpperLetters)} |->
        LowerLetters[IndexIn(c, UpperLetters)]]
UpperChar ==
    [c \in {LowerLetters[i] : i \in 1..Len(LowerLetters)} |->
        UpperLetters[IndexIn(c, LowerLetters)]]

\* s.lower()
lower(s) ==
    [i \in 1..Len(s) |->
        IF s[i] \in DOMAIN LowerChar THEN LowerChar[s[i]] ELSE s[i]]

\* s.upper()
upper(s) ==
    [i \in 1..Len(s) |->
        IF s[i] \in DOMAIN UpperChar THEN UpperChar[s[i]] ELSE s[i]]

\* not s.strip(): s consists of whitespace only
strip_is_empty(s) == \A i \in 1..Len(s) : s[i] \in Whitespace

\* s[:n]
prefix(s, n) == SubSeq(s, 1, IF Len(s) < n THEN Len(s) ELSE n)

\* Python's  k in t  on strings
str_in(k, t) ==
    \E needle \in {k}, hay \in {t} :
        \E i \in 1..(Len(hay) - Len(needle) + 1) :
            SubSeq(hay, i, i + Len(needle) - 1) = needle

\* str(n) for a natural number n
RECURSIVE int_to_str(_)
int_to_str(n) ==
    IF n < 10 THEN <<Digits[n + 1]>>
    ELSE int_to_str(n \div 10) \o <<Digits[(n % 10) + 1]>>

\* int(s) for a string of decimal digits
RECURSIVE str_to_int(_)
str_to_int(s) ==
    IF Len(s) = 0 THEN 0
    ELSE 10 * str_to_int(SubSeq(s, 1, Len(s) - 1))
         + (IndexIn(s[Len(s)], Digits) - 1)

\* f"{c:.2f}" for a confidence held in hundredths (c = 95 is 0.95)
format_2f(c) ==
    int_to_str(c \div 100) \o <<".">>
        \o <<Digits[((c \div 10) % 10) + 1], Digits[(c % 10) + 1]>>

\* f"{seconds / 60:.1f}": minutes with one decimal, rounded to nearest
format_1f_minutes(seconds) ==
    LET tenths == (seconds + 3) \div 6
    IN  int_to_str(tenths \div 10) \o <<".">> \o <<Digits[(tenths % 10) + 1]>>

\* Optional values: None is the empty tuple, a present value x is <<x>>
None == <<>>
Some(x) == <<x>>
IsNone(o) == o = <<>>
TheValue(o) == o[1]

(***************************************************************************)
(* utils.py                                                                *)
(***************************************************************************)
SecondsPerDay == HoursPerDay * SecondsPerHour

\* "HH:MM".split(":") mapped through int
split_hh_mm(s) ==
    LET colon == CHOOSE i \in 1..Len(s) : s[i] = ":"
    IN  <<str_to_int(SubSeq(s, 1, colon - 1)),
          str_to_int(SubSeq(s, colon + 1, Len(s)))>>

\* current_time.replace(hour=h, minute=m, second=0, microsecond=0)
replace_hm(current_time, h, m) ==
    (current_time - (current_time % SecondsPerDay)) + h * SecondsPerHour + m * 60

\* a variant without the overnight range
is_within_allowed_hours_same_day(current_time, start_hour, end_hour) ==
    \E s \in {split_hh_mm(start_hour)}, e \in {split_hh_mm(end_hour)} :
        /\ replace_hm(current_time, s[1], s[2]) <= current_time
        /\ current_time <= replace_hm(current_time, e[1], e[2])

is_within_allowed_hours(current_time, start_hour, end_hour) ==
    \E s \in {split_hh_mm(start_hour)}, e \in {split_hh_mm(end_hour)} :
        \E start_time \in {replace_hm(current_time, s[1], s[2])},
           end_time \in {replace_hm(current_time, e[1], e[2])} :
            IF end_time < start_time
            THEN current_time >= start_time \/ current_time <= end_time
            ELSE start_time <= current_time /\ current_time <= end_time

\* variants that compare the text without lowering it
contains_emergency_keyword_exact_case(text, keywords) ==
    \E i \in 1..Len(keywords) : str_in(keywords[i], text)

contains_stop_keyword_exact_case(text, keywords) ==
    \E i \in 1..Len(keywords) : str_in(keywords[i], text)

contains_emergency_keyword(text, keywords) ==
    \E text_lower \in {lower(text)} :
        \E i \in 1..Len(keywords) : str_in(keywords[i], text_lower)

contains_stop_keyword(text, keywords) ==
    \E text_lower \in {lower(text)} :
        \E i \in 1..Len(keywords) : str_in(lower(keywords[i]), text_lower)

(***************************************************************************)
(* config_loader.py                                                        *)
(***************************************************************************)
\* Config.emergency_keywords: [k.lower() for k in keywords]
emergency_keywords(cfg) ==
    [i \in 1..Len(cfg.emergency_keywords) |-> lower(cfg.emergency_keywords[i])]

(***************************************************************************)
(* state_manager.py: the persisted document and its operations.  A         *)
(* document is a Python dict: a function from keys to values, in which a   *)
(* key may be missing.  Each operator maps the in-memory document to the   *)
(* mutated document; the actions below add the save.  A stored timestamp   *)
(* is the text datetime.isoformat() wrote, <<t>>, or a text that           *)
(* datetime.fromisoformat() rejects, <<>>.  disabled_at and                *)
(* last_proactive_message_time are written and never read: the document    *)
(* keeps whether they are set.                                             *)
(***************************************************************************)
\* {}, k in d, d.get(k, default), d[k] = v
EmptyDict == <<>>
Has(d, k) == k \in DOMAIN d
Get(d, k, default) == IF k \in DOMAIN d THEN d[k] ELSE default
Put(d, k, v) == [key \in DOMAIN d \cup {k} |-> IF key = k THEN v ELSE d[key]]

\* if section not in self.state: self.state[section] = {}
WithSection(doc, section) ==
    IF Has(doc, section) THEN doc ELSE Put(doc, section, EmptyDict)

\* datetime.isoformat(), and datetime.fromisoformat(), which raises
\* ValueError on a text that is not a timestamp
isoformat(t) == <<t>>
fromisoformat_raises(text) == Len(text) # 1
fromisoformat(text) == text[1]

\* a JSON value that is not an object, here the array []
JsonArray == [json_array |-> <<>>]

\* the in-memory state is a dict; on any other value every accessor and
\* every mutator but reset() raises (AttributeError: no .get; TypeError:
\* list indices must be integers)
IsDict(doc) == ~Has(doc, "json_array")

\* Python's h[-n:]
slice_last(h, n) ==
    IF n = 0 THEN h
    ELSE IF n < 0 THEN SubSeq(h, 1 - n, Len(h))
    ELSE IF n >= Len(h) THEN h
    ELSE SubSeq(h, Len(h) - n + 1, Len(h))

_default_state ==
    [ version |-> "1.0",
      last_processed_timestamp |-> None,
      last_processed_message_id |-> None,
      message_history |-> <<>>,
      rate_limit |-> [reply_timestamps |-> <<>>,
                      hourly_count |-> 0,
                      daily_count |-> 0,
                      last_reset_hour |-> None,
                      last_reset_day |-> None],
      statistics |-> [total_messages_processed |-> 0,
                      total_replies_sent |-> 0,
                      total_skipped_emergency |-> 0,
                      total_skipped_hours |-> 0,
                      total_skipped_rate_limit |-> 0,
                      last_updated |-> None],
      proactive |-> [last_incoming_message_time |-> None,
                     unanswered_proactive_count |-> 0,
                     last_proactive_message_time |-> FALSE],
      bot_control |-> [disabled |-> FALSE,
                       disabled_reason |-> None,
                       disabled_at |-> FALSE] ]

\* The state file: <<>> when it does not exist, <<value>> when it holds the
\* JSON text of value, and a longer tuple when it holds text that json.load
\* rejects.
FileMissing == <<>>
FileOf(value) == <<value>>
FileUnparseable == <<"{\"version\": ", "EOF">>

\* a variant that ignores the file
_load_fresh(f) ==
    _default_state

\* the document after StateManager.__init__: what json.load returns when the
\* file exists and parses, else the default document
_load(f) ==
    IF f = FileMissing THEN _default_state
    ELSE IF Len(f) = 1 THEN f[1]
    ELSE _default_state

\* a variant that writes in place: a write that fails leaves a file that
\* does not parse
_save_in_place(doc, f, write_ok) ==
    IF write_ok THEN FileOf(doc) ELSE FileUnparseable

\* the file after _save(): the whole document replaces it, or, when the
\* write fails, the error is logged and the file stays as it was
_save(doc, f, write_ok) ==
    IF write_ok THEN FileOf(doc) ELSE f

get_last_processed_timestamp(doc) ==
    Get(doc, "last_processed_timestamp", None)

set_last_processed(doc, timestamp, message_id) ==
    Put(Put(doc, "last_processed_timestamp", isoformat(timestamp)),
        "last_processed_message_id", Some(message_id))

add_message_to_history(doc, message, from_me, timestamp, max_history) ==
    LET history == Get(doc, "message_history", <<>>)
        appended == Append(history, [message |-> message, from_me |-> from_me,
                                     timestamp |-> isoformat(timestamp)])
    IN  Put(doc, "message_history", slice_last(appended, max_history))

get_message_history(doc, limit) ==
    slice_last(Get(doc, "message_history", <<>>), limit)

\* a variant without the cutoff
get_reply_timestamps_all(doc, now_, since_hours) ==
    LET timestamps == Get(Get(doc, "rate_limit", EmptyDict),
                          "reply_timestamps", <<>>)
        recent == SelectSeq(timestamps,
                            LAMBDA ts_str : ~fromisoformat_raises(ts_str))
    IN  [i \in 1..Len(recent) |-> fromisoformat(recent[i])]

\* the datetimes get_reply_timestamps(since_hours) returns at now_
get_reply_timestamps(doc, now_, since_hours) ==
    LET rate_limit == Get(doc, "rate_limit", EmptyDict)
        timestamps == Get(rate_limit, "reply_timestamps", <<>>)
        cutoff == now_ - (since_hours * SecondsPerHour)
        recent == SelectSeq(timestamps,
                            LAMBDA ts_str : /\ ~fromisoformat_raises(ts_str)
                                            /\ fromisoformat(ts_str) > cutoff)
    IN  [i \in 1..Len(recent) |-> fromisoformat(recent[i])]

\* record_reply_sent raises ValueError while it prunes: the stored list
\* holds a text that fromisoformat rejects
record_reply_sent_raises(doc) ==
    \E i \in 1..Len(Get(Get(doc, "rate_limit", EmptyDict),
                        "reply_timestamps", <<>>)) :
        fromisoformat_raises(doc.rate_limit.reply_timestamps[i])

\* a variant that prunes what is an hour old
record_reply_sent_hour(doc, timestamp, now_) ==
    LET rate_limit == Get(doc, "rate_limit", EmptyDict)
        appended == Append(Get(rate_limit, "reply_timestamps", <<>>),
                           isoformat(timestamp))
        kept == SelectSeq(appended,
                          LAMBDA ts : /\ ~fromisoformat_raises(ts)
                                      /\ fromisoformat(ts) > now_ - SecondsPerHour)
    IN  Put(doc, "rate_limit", Put(rate_limit, "reply_timestamps", kept))

\* the document after record_reply_sent(timestamp) at now_; when it raises,
\* the timestamp has been appended to the stored list in place and nothing
\* else has happened
record_reply_sent(doc, timestamp, now_) ==
    LET rate_limit == Get(doc, "rate_limit", EmptyDict)
        timestamps == Get(rate_limit, "reply_timestamps", <<>>)
        appended == Append(timestamps, isoformat(timestamp))
        cutoff == now_ - (HoursPerDay * SecondsPerHour)
        kept == SelectSeq(appended, LAMBDA ts : fromisoformat(ts) > cutoff)
        stats == Get(doc, "statistics", EmptyDict)
    IN  IF record_reply_sent_raises(doc)
        THEN Put(doc, "rate_limit",
                 Put(rate_limit, "reply_timestamps", appended))
        ELSE Put(Put(doc, "rate_limit",
                     Put(rate_limit, "reply_timestamps", kept)),
                 "statistics",
                 Put(Put(stats, "total_replies_sent",
                         Get(stats, "total_replies_sent", 0) + 1),
                     "last_updated", Some(now_)))

increment_statistic(doc, key, now_) ==
    LET stats == Get(doc, "statistics", EmptyDict)
    IN  Put(doc, "statistics",
            Put(Put(stats, key, Get(stats, key, 0) + 1),
                "last_updated", Some(now_)))

get_statistics(doc) == Get(doc, "statistics", EmptyDict)

get_last_incoming_message_time(doc) ==
    Get(Get(doc, "proactive", EmptyDict), "last_incoming_message_time", None)

\* a variant that leaves the counter as it is
update_last_incoming_message_time_only(doc, timestamp) ==
    LET d == WithSection(doc, "proactive")
    IN  Put(d, "proactive",
            Put(d.proactive, "last_incoming_message_time",
                isoformat(timestamp)))

update_last_incoming_message_time(doc, timestamp) ==
    LET d == WithSection(doc, "proactive")
    IN  Put(d, "proactive",
            Put(Put(d.proactive, "last_incoming_message_time",
                    isoformat(timestamp)),
                "unanswered_proactive_count", 0))

get_unanswered_proactive_count(doc) ==
    Get(Get(doc, "proactive", EmptyDict), "unanswered_proactive_count", 0)

\* a variant that records the time and leaves the counter as it is
increment_unanswered_proactive_uncounted(doc) ==
    LET d == WithSection(doc, "proactive")
    IN  Put(d, "proactive",
            Put(d.proactive, "last_proactive_message_time", TRUE))

increment_unanswered_proactive(doc) ==
    LET d == WithSection(doc, "proactive")
        count == Get(d.proactive, "unanswered_proactive_count", 0)
    IN  Put(d, "proactive",
            Put(Put(d.proactive, "unanswered_proactive_count", count + 1),
                "last_proactive_message_time", TRUE))

\* a variant that also forgets the last incoming message
reset_unanswered_proactive_and_time(doc) ==
    LET d == WithSection(doc, "proactive")
    IN  Put(d, "proactive",
            Put(Put(d.proactive, "unanswered_proactive_count", 0),
                "last_incoming_message_time", None))

reset_unanswered_proactive(doc) ==
    LET d == WithSection(doc, "proactive")
    IN  Put(d, "proactive", Put(d.proactive, "unanswered_proactive_count", 0))

is_bot_disabled(doc) ==
    Get(Get(doc, "bot_control", EmptyDict), "disabled", FALSE)

get_disabled_reason(doc) ==
    Get(Get(doc, "bot_control", EmptyDict), "disabled_reason", None)

\* a variant that records nothing
disable_bot_unrecorded(doc, reason) ==
    doc

disable_bot(doc, reason) ==
    LET d == WithSection(doc, "bot_control")
    IN  Put(d, "bot_control",
            Put(Put(Put(d.bot_control, "disabled", TRUE),
                    "disabled_reason", Some(reason)),
                "disabled_at", TRUE))

enable_bot(doc) ==
    LET d == WithSection(doc, "bot_control")
    IN  Put(d, "bot_control",
            Put(Put(Put(d.bot_control, "disabled", FALSE),
                    "disabled_reason", None),
                "disabled_at", FALSE))

reset(doc) == _default_state

(***************************************************************************)
(* rate_limiter.py                                                         *)
(***************************************************************************)
\* a variant that denies only above the limit
can_send_reply_above(cfg, doc, now_) ==
    LET last_hour_replies == get_reply_timestamps(doc, now_, 1)
        last_day_replies == get_reply_timestamps(doc, now_, 24)
    IN  IF Len(last_hour_replies) > cfg.max_replies_per_hour
        THEN [can_send |-> FALSE,
              reason |-> S_HourlyLimit \o int_to_str(Len(last_hour_replies))
                         \o S_Slash \o int_to_str(cfg.max_replies_per_hour)
                         \o S_Close]
        ELSE IF Len(last_day_replies) > cfg.max_replies_per_day
        THEN [can_send |-> FALSE,
              reason |-> S_DailyLimit \o int_to_str(Len(last_day_replies))
                         \o S_Slash \o int_to_str(cfg.max_replies_per_day)
                         \o S_Close]
        ELSE [can_send |-> TRUE, reason |-> S_OK]

can_send_reply(cfg, doc, now_) ==
    LET last_hour_replies == get_reply_timestamps(doc, now_, 1)
        last_day_replies == get_reply_timestamps(doc, now_, 24)
    IN  IF Len(last_hour_replies) >= cfg.max_replies_per_hour
        THEN [can_send |-> FALSE,
              reason |-> S_HourlyLimit \o int_to_str(Len(last_hour_replies))
                         \o S_Slash \o int_to_str(cfg.max_replies_per_hour)
                         \o S_Close]
        ELSE IF Len(last_day_replies) >= cfg.max_replies_per_day
        THEN [can_send |-> FALSE,
              reason |-> S_DailyLimit \o int_to_str(Len(last_day_replies))
                         \o S_Slash \o int_to_str(cfg.max_replies_per_day)
                         \o S_Close]
        ELSE [can_send |-> TRUE, reason |-> S_OK]

(***************************************************************************)
(* claude_client.py: classify_message.  api is the outcome of the call to  *)
(* the model after _retry_with_backoff:                                    *)
(*   json       the reply parsed as a JSON object (label may be absent)    *)
(*   not_json   the reply is not JSON                                      *)
(*   api_error  RateLimitError, APITimeoutError or APIError on the last    *)
(*              attempt, or a 401: ClaudeClientError                       *)
(*   exception  any other exception raised inside _classify                *)
(***************************************************************************)
L_LOGISTICAL ==
    <<"L", "O", "G", "I", "S", "T", "I", "C", "A", "L">>
L_EMOTIONAL ==
    <<"E", "M", "O", "T", "I", "O", "N", "A", "L">>
L_CONFLICT ==
    <<"C", "O", "N", "F", "L", "I", "C", "T">>

\* MessageClassification.__init__: label.upper()
MessageClassification(label, confidence) ==
    [raised |-> FALSE, label |-> upper(label), confidence |-> confidence,
     error |-> <<>>]

classify_message(api) ==
    CASE api.kind = "json" ->
            MessageClassification(
                upper(IF IsNone(api.label) THEN L_LOGISTICAL
                      ELSE TheValue(api.label)),
                api.confidence)
      [] api.kind = "not_json" -> MessageClassification(L_LOGISTICAL, 50)
      [] api.kind = "api_error" -> MessageClassification(L_LOGISTICAL, 0)
      [] OTHER -> [raised |-> TRUE, label |-> <<>>, confidence |-> 0,
                   error |-> api.error]

(***************************************************************************)
(* router.py                                                               *)
(***************************************************************************)
\* ... any message with media taken as media-only
is_media_only_any_body(wm) ==
    ~IsNone(wm.media_type)

\* WhatsAppMessage.is_media_only (whatsapp_client.py): a message is a record
\* [body, media_type] with media_type an Optional string
is_media_only(wm) ==
    ~IsNone(wm.media_type) /\ strip_is_empty(wm.body)

\* variants of the definitions below: every label routed to AUTO_REPLY, ...
route_by_label_auto(classification) ==
    [decision |-> "AUTO_REPLY",
     reason |-> S_Logistical \o format_2f(classification.confidence)
                \o S_Close]

\* the routing of decide() on classification.label
route_by_label(classification) ==
    IF classification.label = L_LOGISTICAL
    THEN [decision |-> "AUTO_REPLY",
          reason |-> S_Logistical \o format_2f(classification.confidence)
                     \o S_Close]
    ELSE IF classification.label = L_EMOTIONAL
    THEN [decision |-> "TEMPLATE_EMOTIONAL",
          reason |-> S_Emotional \o format_2f(classification.confidence)
                     \o S_Close]
    ELSE IF classification.label = L_CONFLICT
    THEN [decision |-> "TEMPLATE_CONFLICT",
          reason |-> S_Conflict \o format_2f(classification.confidence)
                     \o S_Close]
    ELSE [decision |-> "TEMPLATE_EMOTIONAL",
          reason |-> S_UnknownClass \o classification.label]

\* The outcome of Router.decide(message, current_time, whatsapp_message) for
\* a Router whose state_manager attribute is present iff sm, on the document
\* doc.  disable holds the argument of the disable_bot call decide makes, if
\* any; rate_checked and classified tell whether can_send_reply and
\* classify_message were called.  clock is what datetime.now() gives during
\* the call: get_reply_timestamps measures its windows from it, not from
\* current_time.
decide_at(cfg, doc, sm, message, current_time, clock, whatsapp_message, api) ==
    LET out(d, r, dis, rc, cl) ==
            [decision |-> d, reason |-> r, disable |-> dis,
             rate_checked |-> rc, classified |-> cl]
        stored == get_disabled_reason(doc)
        reason == IF IsNone(stored) \/ TheValue(stored) = <<>>
                  THEN S_Unknown ELSE TheValue(stored)
        wm == TheValue(whatsapp_message)
        rate == can_send_reply(cfg, doc, clock)
        classification == classify_message(api)
    IN  IF sm /\ is_bot_disabled(doc)
        THEN out("NO_REPLY_LOG", S_BotDisabled \o reason, None, FALSE, FALSE)
        ELSE IF ~IsNone(whatsapp_message) /\ is_media_only(wm)
        THEN out("TEMPLATE_MEDIA",
                 S_MediaOnly \o TheValue(wm.media_type) \o S_Close,
                 None, FALSE, FALSE)
        ELSE IF cfg.stop_keywords # <<>>
                /\ contains_stop_keyword(message, cfg.stop_keywords)
        THEN out("STOP_DETECTED", S_StopDetected,
                 IF sm THEN Some(S_UserSaid \o prefix(message, ReasonPrefixLen))
                 ELSE None,
                 FALSE, FALSE)
        ELSE IF contains_emergency_keyword(message, emergency_keywords(cfg))
        THEN out("TEMPLATE_EMERGENCY", S_Emergency, None, FALSE, FALSE)
        ELSE IF ~cfg.enable_auto_reply
        THEN out("NO_REPLY_LOG", S_AutoReplyOff, None, FALSE, FALSE)
        ELSE IF ~is_within_allowed_hours(current_time, cfg.allowed_start,
                                         cfg.allowed_end)
        THEN out("NO_REPLY_LOG",
                 S_OutsideHours \o cfg.allowed_start \o S_Dash
                     \o cfg.allowed_end \o S_Close,
                 None, FALSE, FALSE)
        ELSE IF ~cfg.busy_mode
        THEN out("NO_REPLY_LOG", S_BusyOff, None, FALSE, FALSE)
        ELSE IF ~rate.can_send
        THEN out("NO_REPLY_LOG", S_RateLimit \o rate.reason, None, TRUE, FALSE)
        ELSE IF classification.raised
        THEN out("TEMPLATE_EMOTIONAL", S_ClassFailed \o classification.error,
                 None, TRUE, TRUE)
        ELSE out(route_by_label(classification).decision,
                 route_by_label(classification).reason, None, TRUE, TRUE)

\* Router.decide called without current_time, as main.py calls it:
\* current_time is then the reading of the clock
decide(cfg, doc, sm, message, current_time, whatsapp_message, api) ==
    decide_at(cfg, doc, sm, message, current_time, current_time, whatsapp_message, api)


\* a variant whose jitter shortens the threshold
should_send_proactive_message_early(cfg, last_incoming_time, current_time, unanswered_count, jitter) ==
    LET silence_seconds == current_time - TheValue(last_incoming_time)
        effective_threshold == cfg.silence_threshold_minutes - jitter
    IN  IF ~cfg.proactive_enabled
        THEN [should_send |-> FALSE, reason |-> S_ProactiveOff]
        ELSE IF unanswered_count >= cfg.max_unanswered_proactive
        THEN [should_send |-> FALSE,
              reason |-> S_AlreadySent \o int_to_str(unanswered_count)
                         \o S_UnansweredTail]
        ELSE IF IsNone(last_incoming_time)
        THEN [should_send |-> FALSE, reason |-> S_NoLastIncoming]
        ELSE IF silence_seconds < effective_threshold * 60
        THEN [should_send |-> FALSE,
              reason |-> S_SilenceDuration \o format_1f_minutes(silence_seconds)
                         \o S_BelowThreshold \o int_to_str(effective_threshold)
                         \o S_Min]
        ELSE IF ~is_within_allowed_hours(current_time, cfg.proactive_start,
                                         cfg.proactive_end)
        THEN [should_send |-> FALSE,
              reason |-> S_OutsideProactive \o cfg.proactive_start \o S_Dash
                         \o cfg.proactive_end \o S_Close]
        ELSE [should_send |-> TRUE,
              reason |-> S_Silence \o format_1f_minutes(silence_seconds)
                         \o S_Exceeded]

\* a variant that looks at the hours before the silence
should_send_proactive_message_hours_first(cfg, last_incoming_time, current_time, unanswered_count, jitter) ==
    LET silence_seconds == current_time - TheValue(last_incoming_time)
        effective_threshold == cfg.silence_threshold_minutes + jitter
    IN  IF ~cfg.proactive_enabled
        THEN [should_send |-> FALSE, reason |-> S_ProactiveOff]
        ELSE IF unanswered_count >= cfg.max_unanswered_proactive
        THEN [should_send |-> FALSE,
              reason |-> S_AlreadySent \o int_to_str(unanswered_count)
                         \o S_UnansweredTail]
        ELSE IF IsNone(last_incoming_time)
        THEN [should_send |-> FALSE, reason |-> S_NoLastIncoming]
        ELSE IF ~is_within_allowed_hours(current_time, cfg.proactive_start,
                                         cfg.proactive_end)
        THEN [should_send |-> FALSE,
              reason |-> S_OutsideProactive \o cfg.proactive_start \o S_Dash
                         \o cfg.proactive_end \o S_Close]
        ELSE IF silence_seconds < effective_threshold * 60
        THEN [should_send |-> FALSE,
              reason |-> S_SilenceDuration \o format_1f_minutes(silence_seconds)
                         \o S_BelowThreshold \o int_to_str(effective_threshold)
                         \o S_Min]
        ELSE [should_send |-> TRUE,
              reason |-> S_Silence \o format_1f_minutes(silence_seconds)
                         \o S_Exceeded]

\* Router.should_send_proactive_message; jitter is the value random.randint
\* draws from 0..jitter_minutes
should_send_proactive_message(cfg, last_incoming_time, current_time, unanswered_count, jitter) ==
    LET silence_seconds == current_time - TheValue(last_incoming_time)
        effective_threshold == cfg.silence_threshold_minutes + jitter
    IN  IF ~cfg.proactive_enabled
        THEN [should_send |-> FALSE, reason |-> S_ProactiveOff]
        ELSE IF unanswered_count >= cfg.max_unanswered_proactive
        THEN [should_send |-> FALSE,
              reason |-> S_AlreadySent \o int_to_str(unanswered_count)
                         \o S_UnansweredTail]
        ELSE IF IsNone(last_incoming_time)
        THEN [should_send |-> FALSE, reason |-> S_NoLastIncoming]
        ELSE IF silence_seconds < effective_threshold * 60
        THEN [should_send |-> FALSE,
              reason |-> S_SilenceDuration \o format_1f_minutes(silence_seconds)
                         \o S_BelowThreshold \o int_to_str(effective_threshold)
                         \o S_Min]
        ELSE IF ~is_within_allowed_hours(current_time, cfg.proactive_start,
                                         cfg.proactive_end)
        THEN [should_send |-> FALSE,
              reason |-> S_OutsideProactive \o cfg.proactive_start \o S_Dash
                         \o cfg.proactive_end \o S_Close]
        ELSE [should_send |-> TRUE,
              reason |-> S_Silence \o format_1f_minutes(silence_seconds)
                         \o S_Exceeded]

\* Router.execute_decision: the reply text, None when there is none.  A text
\* is an opaque string; gen is what the collaborator (template library or
\* generator) hands back: [ok |-> TRUE, text |-> t], or ok = FALSE when the
\* generator raises.
FallbackLogistical == "Bas thoda time aur, text you soon"
\* the phrase ends with a blue heart, written here by its code point
FallbackProactive == "How's your day going? Sab theek? (U+1F499)"

execute_decision(decision, whatsapp_message, gen) ==
    CASE decision \in {"NO_REPLY_LOG", "STOP_DETECTED"} -> None
      [] decision = "TEMPLATE_MEDIA" ->
            IF ~IsNone(whatsapp_message)
               /\ ~IsNone(TheValue(whatsapp_message).media_type)
               /\ TheValue(TheValue(whatsapp_message).media_type) # <<>>
            THEN Some(gen.text) ELSE None
      [] decision = "PROACTIVE_MESSAGE" ->
            IF gen.ok THEN Some(gen.text) ELSE Some(FallbackProactive)
      [] decision \in {"TEMPLATE_EMERGENCY", "TEMPLATE_EMOTIONAL",
                       "TEMPLATE_CONFLICT"} -> Some(gen.text)
      [] decision = "AUTO_REPLY" ->
            IF gen.ok THEN Some(gen.text) ELSE Some(FallbackLogistical)
      [] OTHER -> None

(***************************************************************************)
(* Inputs: message bodies, media kinds, classifier outcomes, configurations*)
(***************************************************************************)
\* the body of a media message without caption
B_empty ==
    <<>>
B_blank ==
    <<" ">>
B_plain ==
    <<"K", "a", "b", " ", "a", "o", "g", "e", "?">>
B_stop ==
    <<"S", "t", "o", "p", " ", "i", "t">>
B_urgent ==
    <<"U", "R", "G", "E", "N", "T", " ", "c", "a", "l", "l", " ", "n", "o", "w">>
B_both ==
    <<"u", "r", "g", "e", "n", "t", ":", " ", "S", "T", "O", "P">>
\* a stop message longer than the 100 characters decide() keeps of it
B_long_stop ==
    B_stop \o [i \in 1..(ReasonPrefixLen - 2) |-> "x"]

\* what decide() is called with: the text, and the WhatsAppMessage given as
\* whatsapp_message (its media_type) when pass_message
Call(body, media_type, pass_message) ==
    [body |-> body, media_type |-> media_type, pass_message |-> pass_message]

K_stop ==
    <<"s", "t", "o", "p">>
K_urgent ==
    <<"U", "r", "g", "e", "n", "t">>
MT_image ==
    <<"i", "m", "a", "g", "e">>
L_conflict_lc ==
    <<"c", "o", "n", "f", "l", "i", "c", "t">>
L_SPAM ==
    <<"S", "P", "A", "M">>
E_index ==
    <<"l", "i", "s", "t", " ", "i", "n", "d", "e", "x", " ", "o", "u", "t", " ", "o", "f", " ", "r", "a", "n", "g", "e">>
T_0030 ==
    <<"0", "0", ":", "3", "0">>
T_0100 ==
    <<"0", "1", ":", "0", "0">>

Calls ==
    { Call(B_plain, None, FALSE), Call(B_plain, Some(MT_image), TRUE),
      Call(B_blank, Some(MT_image), TRUE), Call(B_empty, Some(MT_image), TRUE),
      Call(B_blank, None, TRUE),
      Call(B_stop, None, TRUE), Call(B_long_stop, None, FALSE),
      Call(B_urgent, None, FALSE), Call(B_urgent, Some(MT_image), TRUE),
      Call(B_both, None, TRUE) }

\* the classifier was not called
NoApi ==
    [kind |-> "none", label |-> None, confidence |-> 0, error |-> <<>>]

ApiOutcomes ==
    { [kind |-> "json", label |-> Some(l), confidence |-> 95, error |-> <<>>] :
        l \in {L_LOGISTICAL, L_EMOTIONAL, L_CONFLICT, L_conflict_lc, L_SPAM} }
    \cup { [kind |-> "json", label |-> None, confidence |-> 50, error |-> <<>>],
           [kind |-> "not_json", label |-> None, confidence |-> 0, error |-> <<>>],
           [kind |-> "api_error", label |-> None, confidence |-> 0, error |-> <<>>],
           [kind |-> "exception", label |-> None, confidence |-> 0,
            error |-> E_index] }

\* a validated configuration (Config._validate: both limits are positive);
\* the allowed hours are 00:30-01:00 for replies and for proactive messages
Config(ea, bm, lim, dry, pro) ==
    [ enable_auto_reply |-> ea, busy_mode |-> bm,
      allowed_start |-> T_0030, allowed_end |-> T_0100,
      max_replies_per_hour |-> lim[1], max_replies_per_day |-> lim[2],
      stop_keywords |-> <<K_stop>>, emergency_keywords |-> <<K_urgent>>,
      dry_run |-> dry,
      proactive_enabled |-> pro, max_unanswered_proactive |-> 1,
      silence_threshold_minutes |-> 60, jitter_minutes |-> 1,
      proactive_start |-> T_0030, proactive_end |-> T_0100 ]

\* the configurations of the gates of decide()
RouterConfigs ==
    { Config(ea, bm, lim, FALSE, FALSE) :
        ea \in BOOLEAN, bm \in BOOLEAN, lim \in {<<2, 2>>, <<1, 2>>} }

\* the configurations the assistant runs with
AssistantConfigs ==
    { Config(TRUE, TRUE, lim, dry, pro) :
        lim \in {<<2, 2>>, <<1, 2>>}, dry \in BOOLEAN, pro \in BOOLEAN }

\* the instants at which the clock is read
ClockSamples == {0, SecondsPerHour - 1, SecondsPerHour}
Times == ClockSamples \cup { day * SecondsPerDay : day \in 1..MaxDay }

(***************************************************************************)
(* State                                                                   *)
(***************************************************************************)
VARIABLES
    config,   \* the Config object shared by Router and RateLimiter
    state,    \* StateManager.state, the in-memory document
    file,     \* the state file: None while it does not exist
    now,      \* the clock
    last      \* the most recent call and what it returned

vars == <<config, state, file, now, last>>

NoCall ==
    [ op |-> "none", sm |-> FALSE, message |-> <<>>, whatsapp_message |-> None,
      api |-> NoApi, decision |-> "none", reason |-> <<>>,
      rate_checked |-> FALSE, classified |-> FALSE, can_send |-> FALSE,
      reply |-> None, sent |-> FALSE,
      timestamp |-> 0, hours |-> 0, cap |-> 0, key |-> "", returned |-> <<>>,
      raised |-> FALSE, write_ok |-> TRUE, failed_writes |-> 0,
      from_me |-> FALSE, within |-> FALSE ]

InitRouter ==
    /\ config \in RouterConfigs
    /\ file = FileMissing
    /\ state = _load(FileMissing)
    /\ now = 0
    /\ last = NoCall

(***************************************************************************)
(* Calls on the Router, the RateLimiter and the StateManager               *)
(***************************************************************************)
\* router.decide(body) or router.decide(body, whatsapp_message=message) on a
\* Router built with (sm) or without a StateManager
Decide(sm, body, media_type, pass_message, api, write_ok) ==
    \E wm \in {IF pass_message
                THEN Some([body |-> body, media_type |-> media_type])
                ELSE None} :
    \E r \in {decide(config, state, sm, body, now, wm, api)} :
    \E doc \in {IF IsNone(r.disable) THEN state
                 ELSE disable_bot(state, TheValue(r.disable))} :
        /\ state' = doc
        /\ file' = IF IsNone(r.disable) THEN file ELSE _save(doc, file, write_ok)
        /\ last' = [NoCall EXCEPT !.op = "decide", !.sm = sm,
                                  !.message = body, !.whatsapp_message = wm,
                                  !.api = IF r.classified THEN api ELSE NoApi,
                                  !.decision = r.decision, !.reason = r.reason,
                                  !.rate_checked = r.rate_checked,
                                  !.classified = r.classified]
        /\ UNCHANGED <<config, now>>

\* rate_limiter.can_send_reply()
CanSendReply ==
    \E r \in {can_send_reply(config, state, now)} :
        /\ last' = [NoCall EXCEPT !.op = "can_send_reply",
                                  !.can_send = r.can_send, !.reason = r.reason]
        /\ UNCHANGED <<config, state, file, now>>

\* rate_limiter.record_reply(): state_manager.record_reply_sent() at now
RecordReply(write_ok) ==
    /\ state.statistics.total_replies_sent < MaxReplies
    /\ state' = record_reply_sent(state, now, now)
    /\ file' = _save(state', file, write_ok)
    /\ last' = [NoCall EXCEPT !.op = "record_reply"]
    /\ UNCHANGED <<config, now>>

\* state_manager.enable_bot(), as scripts/enable_bot.py calls it
EnableBot(write_ok) ==
    /\ state' = enable_bot(state)
    /\ file' = _save(state', file, write_ok)
    /\ last' = [NoCall EXCEPT !.op = "enable_bot"]
    /\ UNCHANGED <<config, now>>

\* state_manager.reset()
Reset(write_ok) ==
    /\ state' = reset(state)
    /\ file' = _save(state', file, write_ok)
    /\ last' = [NoCall EXCEPT !.op = "reset"]
    /\ UNCHANGED <<config, now>>

\* time passes
AdvanceClock ==
    /\ \E t \in Times : t > now /\ now' = t
    /\ last' = [NoCall EXCEPT !.op = "clock"]
    /\ UNCHANGED <<config, state, file>>

\* one call of decide; the classifier's outcome is drawn only for a call that
\* reaches classify_message
DecideCall ==
    \E sm \in BOOLEAN, c \in Calls :
        \E probe \in {decide(config, state, sm, c.body, now,
                              IF c.pass_message
                              THEN Some([body |-> c.body,
                                         media_type |-> c.media_type])
                              ELSE None, NoApi)} :
            \E api \in (IF probe.classified THEN ApiOutcomes ELSE {NoApi}) :
                Decide(sm, c.body, c.media_type, c.pass_message, api, TRUE)

\* the calls made on one live Router, RateLimiter and StateManager whose
\* state file can be written
NextRouter ==
    \/ DecideCall
    \/ CanSendReply
    \/ RecordReply(TRUE)
    \/ EnableBot(TRUE)
    \/ Reset(TRUE)
    \/ AdvanceClock

SpecRouter == InitRouter /\ [][NextRouter]_vars

(***************************************************************************)
(* The other StateManager calls, and a restart of the process              *)
(***************************************************************************)
\* state_manager.disable_bot(reason)
DisableBot(reason, write_ok) ==
    /\ state' = disable_bot(state, reason)
    /\ file' = _save(state', file, write_ok)
    /\ last' = [NoCall EXCEPT !.op = "disable_bot"]
    /\ UNCHANGED <<config, now>>

\* state_manager.update_last_incoming_message_time(now)
UpdateLastIncoming(write_ok) ==
    /\ state' = update_last_incoming_message_time(state, now)
    /\ file' = _save(state', file, write_ok)
    /\ last' = [NoCall EXCEPT !.op = "update_last_incoming_message_time"]
    /\ UNCHANGED <<config, now>>

\* state_manager.increment_unanswered_proactive()
IncrementUnanswered(write_ok) ==
    /\ state.proactive.unanswered_proactive_count < MaxReplies
    /\ state' = increment_unanswered_proactive(state)
    /\ file' = _save(state', file, write_ok)
    /\ last' = [NoCall EXCEPT !.op = "increment_unanswered_proactive"]
    /\ UNCHANGED <<config, now>>

\* the process ends and a new StateManager is constructed on the state file
Restart ==
    /\ state' = _load(file)
    /\ last' = [NoCall EXCEPT !.op = "restart"]
    /\ UNCHANGED <<config, file, now>>

InitState ==
    /\ config = Config(TRUE, TRUE, <<2, 2>>, FALSE, FALSE)
    /\ file = FileMissing
    /\ state = _load(FileMissing)
    /\ now = 0
    /\ last = NoCall

\* the public mutators of one StateManager, each write succeeding or failing,
\* and restarts
NextState ==
    \/ \E write_ok \in BOOLEAN : RecordReply(write_ok)
    \/ \E write_ok \in BOOLEAN : DisableBot(S_UserSaid \o B_stop, write_ok)
    \/ \E write_ok \in BOOLEAN : EnableBot(write_ok)
    \/ \E write_ok \in BOOLEAN : Reset(write_ok)
    \/ \E write_ok \in BOOLEAN : UpdateLastIncoming(write_ok)
    \/ \E write_ok \in BOOLEAN : IncrementUnanswered(write_ok)
    \/ Restart
    \/ AdvanceClock

SpecState == InitState /\ [][NextState]_vars

(***************************************************************************)
(* main.py: the orchestrator.  config.target_chat_id is read as the        *)
(* configured chat id.  One poll cycle handles its messages one after the  *)
(* other and then checks for a proactive message, so each handler is one   *)
(* step.                                                                   *)
(***************************************************************************)
GenOutcomes ==
    { [ok |-> TRUE, text |-> "reply text"], [ok |-> TRUE, text |-> ""],
      [ok |-> FALSE, text |-> ""] }

\* the collaborator outcomes that matter for a decision
GenFor(decision) ==
    IF decision \in {"AUTO_REPLY", "PROACTIVE_MESSAGE"} THEN GenOutcomes
    ELSE IF decision \in {"NO_REPLY_LOG", "STOP_DETECTED"}
    THEN {[ok |-> TRUE, text |-> ""]}
    ELSE {g \in GenOutcomes : g.ok}

Truthy(reply) == ~IsNone(reply) /\ TheValue(reply) # ""

\* WhatsAppAssistant.process_message(message): message arrives now with the
\* given body and media type; timestamp_ok tells whether its timestamp parses,
\* send_ok whether the transport sends the reply
ProcessMessage(c, timestamp_ok, write_ok) ==
    \E wm \in {Some([body |-> c.body, media_type |-> c.media_type])} :
    \E doc1 \in {IF timestamp_ok
                 THEN update_last_incoming_message_time(state, now)
                 ELSE state} :
    \E probe \in {decide(config, doc1, TRUE, c.body, now, wm, NoApi)} :
    \E api \in (IF probe.classified THEN ApiOutcomes ELSE {NoApi}) :
    \E r \in {decide(config, doc1, TRUE, c.body, now, wm, api)} :
    \E doc2 \in {IF IsNone(r.disable) THEN doc1
                 ELSE disable_bot(doc1, TheValue(r.disable))} :
    \E gen \in GenFor(r.decision) :
    \E reply \in {execute_decision(r.decision, wm, gen)} :
    \E send_ok \in (IF Truthy(reply) /\ ~config.dry_run THEN BOOLEAN
                    ELSE {FALSE}) :
        /\ send_ok => state.statistics.total_replies_sent < MaxReplies
        /\ state' = IF send_ok THEN record_reply_sent(doc2, now, now) ELSE doc2
        /\ file' = IF state' = state THEN file ELSE _save(state', file, write_ok)
        /\ last' = [NoCall EXCEPT !.op = "process_message", !.sm = TRUE,
                                  !.message = c.body, !.whatsapp_message = wm,
                                  !.api = IF r.classified THEN api ELSE NoApi,
                                  !.decision = r.decision, !.reason = r.reason,
                                  !.rate_checked = r.rate_checked,
                                  !.classified = r.classified,
                                  !.reply = reply, !.sent = send_ok]
        /\ UNCHANGED <<config, now>>

\* WhatsAppAssistant.check_proactive_message()
CheckProactive(write_ok) ==
    \E jitter \in 0..config.jitter_minutes :
    \E p \in {should_send_proactive_message(
                  config, state.proactive.last_incoming_message_time, now,
                  state.proactive.unanswered_proactive_count, jitter)} :
    \E gen \in (IF p.should_send THEN GenFor("PROACTIVE_MESSAGE")
                ELSE {[ok |-> TRUE, text |-> ""]}) :
    \E reply \in {IF p.should_send
                  THEN execute_decision("PROACTIVE_MESSAGE", None, gen)
                  ELSE None} :
    \E send_ok \in (IF Truthy(reply) /\ ~config.dry_run THEN BOOLEAN
                    ELSE {FALSE}) :
        /\ send_ok => state.statistics.total_replies_sent < MaxReplies
        /\ state' = IF send_ok
                    THEN record_reply_sent(
                             increment_unanswered_proactive(state), now, now)
                    ELSE state
        /\ file' = IF send_ok THEN _save(state', file, write_ok) ELSE file
        /\ last' = [NoCall EXCEPT !.op = "check_proactive_message",
                                  !.decision = IF p.should_send
                                               THEN "PROACTIVE_MESSAGE"
                                               ELSE "none",
                                  !.reason = p.reason,
                                  !.reply = reply, !.sent = send_ok]
        /\ UNCHANGED <<config, now>>

\* scripts/enable_bot.py: another process builds its own StateManager on the
\* state file and re-enables the bot there if it is disabled
EnableScript ==
    /\ is_bot_disabled(_load(file))
    /\ file' = FileOf(enable_bot(_load(file)))
    /\ last' = [NoCall EXCEPT !.op = "enable_script"]
    /\ UNCHANGED <<config, state, now>>

Init ==
    /\ config \in AssistantConfigs
    /\ file = FileMissing
    /\ state = _load(FileMissing)
    /\ now = 0
    /\ last = NoCall

Next ==
    \/ \E c \in {k \in Calls : k.pass_message}, timestamp_ok \in BOOLEAN :
          ProcessMessage(c, timestamp_ok, TRUE)
    \/ CheckProactive(TRUE)
    \/ EnableScript
    \/ Restart
    \/ AdvanceClock

Spec == Init /\ [][Next]_vars

(***************************************************************************)
(* Properties.  The predicates below state the rules of decide() on the    *)
(* call recorded in a step (c is last') and the state it was made in,      *)
(* independently of the definitions above.                                 *)
(***************************************************************************)
HasPrefix(p, t) ==
    Len(p) <= Len(t) /\ \A i \in 1..Len(p) : t[i] = p[i]

\* k occurs in t at some offset, letter case ignored
OccursIgnoringCase(k, t) ==
    \E off \in 0..(Len(t) - Len(k)) :
        \A j \in 1..Len(k) : lower(<<t[off + j]>>) = lower(<<k[j]>>)

HasStopKeyword(text) ==
    \E i \in 1..Len(config.stop_keywords) :
        OccursIgnoringCase(config.stop_keywords[i], text)

HasEmergencyKeyword(text) ==
    \E i \in 1..Len(config.emergency_keywords) :
        OccursIgnoringCase(config.emergency_keywords[i], text)

\* the message given to the call has media and no text besides whitespace
MediaOnlyCall(c) ==
    /\ c.whatsapp_message # None
    /\ TheValue(c.whatsapp_message).media_type # None
    /\ \A i \in 1..Len(TheValue(c.whatsapp_message).body) :
           TheValue(c.whatsapp_message).body[i] \in Whitespace

\* the router of the call sees the bot as disabled
DisabledFor(c) == c.sm /\ state.bot_control.disabled

InsideHours ==
    is_within_allowed_hours(now, config.allowed_start, config.allowed_end)

RateAllows == can_send_reply(config, state, now).can_send

\* some gate of decide() is closed
GateClosed ==
    \/ ~config.enable_auto_reply
    \/ ~InsideHours
    \/ ~config.busy_mode
    \/ ~RateAllows

ReplyProducing ==
    {"AUTO_REPLY", "TEMPLATE_EMOTIONAL", "TEMPLATE_CONFLICT",
     "TEMPLATE_EMERGENCY", "TEMPLATE_MEDIA"}

StoredReason == TheValue(state.bot_control.disabled_reason)

\* what every step of C1 must satisfy when ending is the set of calls that
\* may end a disablement
StopIsTerminalUntil(ending) ==
    /\ (last'.op = "decide" /\ last'.sm /\ last'.decision = "STOP_DETECTED")
          => /\ state'.bot_control.disabled
             /\ state'.bot_control.disabled_reason
                    = Some(S_UserSaid \o prefix(last'.message, ReasonPrefixLen))
    /\ (last'.op = "decide" /\ last'.sm /\ state.bot_control.disabled)
          => /\ last'.decision = "NO_REPLY_LOG"
             /\ HasPrefix(S_BotDisabled \o StoredReason, last'.reason)
    /\ (state.bot_control.disabled /\ ~state'.bot_control.disabled)
          => last'.op \in ending
    /\ (last'.op = "decide" /\ ~state.bot_control.disabled)
          => ~HasPrefix(S_BotDisabled, last'.reason)

\* C1: once decide() of a Router built with a StateManager has returned
\* STOP_DETECTED, the bot is disabled with the reason "User said: " and the
\* first 100 characters of the message, and every later decide() of such a
\* Router returns NO_REPLY_LOG with a reason containing the stored reason,
\* whatever the message, until enable_bot() or reset() is called; a decide()
\* made while the bot is not disabled never returns the 'Bot disabled' outcome.
C1_StopTerminalUntilEnableOrReset ==
    [][StopIsTerminalUntil({"enable_bot", "reset"})]_vars

\* C1 as stated: only enable_bot() ends the disablement
C1_StopTerminalUntilEnable ==
    [][StopIsTerminalUntil({"enable_bot"})]_vars

\* a decide() on an emergency message answered by the disabled rule with the
\* reason stored for a stop message longer than 100 characters
C1_Witness ==
    /\ last.op = "decide" /\ last.sm
    /\ last.decision = "NO_REPLY_LOG"
    /\ HasEmergencyKeyword(last.message)
    /\ state.bot_control.disabled
    /\ last.reason = S_BotDisabled \o S_UserSaid
                        \o prefix(B_long_stop, ReasonPrefixLen)

\* the state file records the disablement
FileDisabled ==
    Len(file) = 1 /\ file[1].bot_control.disabled

\* C2: bot_control.disabled, once true, stays true across every StateManager
\* operation other than enable_bot() and reset(), and across every restart
\* that reloads a state file recording it; it is lost on a restart only when
\* the file does not record it (the write of the disablement failed).
C2_DisabledSticky ==
    [][(state.bot_control.disabled /\ ~state'.bot_control.disabled)
          => \/ last'.op \in {"enable_bot", "reset"}
             \/ last'.op = "restart" /\ ~FileDisabled]_vars

\* C2 as stated: only enable_bot() clears the flag
C2_DisabledUntilEnable ==
    [][(state.bot_control.disabled /\ ~state'.bot_control.disabled)
          => last'.op = "enable_bot"]_vars

\* the flag has survived a recorded reply and a restart
C2_Witness ==
    /\ last.op = "restart"
    /\ state.bot_control.disabled
    /\ state.statistics.total_replies_sent > 0

\* C3: while bot_control.disabled is true the orchestrator sends nothing,
\* neither from process_message nor from check_proactive_message.
C3_NoSendWhileDisabled ==
    (last.op \in {"process_message", "check_proactive_message"} /\ last.sent)
        => ~state.bot_control.disabled

\* the emergency rule is reached by the call of the step
EmergencyReached(c) ==
    /\ c.op = "decide"
    /\ ~state.bot_control.disabled
    /\ ~MediaOnlyCall(c)
    /\ ~HasStopKeyword(c.message)
    /\ HasEmergencyKeyword(c.message)

\* C4: with the bot not disabled, a message that is not media-only, contains
\* no stop keyword and contains an emergency keyword in any letter case gets
\* TEMPLATE_EMERGENCY, whatever enable_auto_reply, the allowed hours,
\* busy_mode and the rate limiter say.
C4_EmergencyBypassesGates ==
    [][EmergencyReached(last') => last'.decision = "TEMPLATE_EMERGENCY"]_vars

\* an emergency answered with auto-reply and busy mode off, outside the
\* allowed hours and with the rate limit reached
C4_Witness ==
    /\ last.op = "decide"
    /\ last.decision = "TEMPLATE_EMERGENCY"
    /\ ~config.enable_auto_reply /\ ~config.busy_mode
    /\ ~InsideHours /\ ~RateAllows

\* C5: with any gate closed, the only reply-producing decision of decide()
\* is TEMPLATE_EMERGENCY.
C5_OnlyEmergencyBypasses ==
    [][(last'.op = "decide" /\ GateClosed /\ last'.decision \in ReplyProducing)
          => last'.decision = "TEMPLATE_EMERGENCY"]_vars

\* C6: for a Router built with a StateManager, a message with both a stop and
\* an emergency keyword, not media-only, met while the bot is not disabled,
\* yields STOP_DETECTED and disables the bot; an emergency message met while
\* the bot is disabled yields NO_REPLY_LOG.  A Router built without one
\* returns STOP_DETECTED for the former and records nothing.
C6_StopAndDisabledOutrankEmergency ==
    [][last'.op = "decide" =>
          /\ (/\ HasStopKeyword(last'.message)
              /\ HasEmergencyKeyword(last'.message)
              /\ ~MediaOnlyCall(last')
              /\ ~DisabledFor(last'))
                => /\ last'.decision = "STOP_DETECTED"
                   /\ last'.sm => state'.bot_control.disabled
                   /\ ~last'.sm => state' = state
          /\ (DisabledFor(last') /\ HasEmergencyKeyword(last'.message))
                => last'.decision = "NO_REPLY_LOG"]_vars

\* C6 as stated, for every Router
C6_ForEveryRouter ==
    [][last'.op = "decide" =>
          /\ (/\ HasStopKeyword(last'.message)
              /\ HasEmergencyKeyword(last'.message)
              /\ ~MediaOnlyCall(last')
              /\ ~state.bot_control.disabled)
                => /\ last'.decision = "STOP_DETECTED"
                   /\ state'.bot_control.disabled
          /\ (state.bot_control.disabled /\ HasEmergencyKeyword(last'.message))
                => last'.decision = "NO_REPLY_LOG"]_vars

\* the message with both keywords has just disabled the bot
C6_Witness ==
    /\ last.op = "decide" /\ last.sm
    /\ last.message = B_both
    /\ last.decision = "STOP_DETECTED"
    /\ state.bot_control.disabled_reason = Some(S_UserSaid \o B_both)

\* the rules of decide() in their order, each with the start of its reason
Rules(c) ==
    << [matches |-> DisabledFor(c), reason |-> {S_BotDisabled}],
       [matches |-> MediaOnlyCall(c), reason |-> {S_MediaOnly}],
       [matches |-> HasStopKeyword(c.message), reason |-> {S_StopDetected}],
       [matches |-> HasEmergencyKeyword(c.message), reason |-> {S_Emergency}],
       [matches |-> ~config.enable_auto_reply, reason |-> {S_AutoReplyOff}],
       [matches |-> ~InsideHours, reason |-> {S_OutsideHours}],
       [matches |-> ~config.busy_mode, reason |-> {S_BusyOff}],
       [matches |-> ~RateAllows, reason |-> {S_RateLimit}],
       [matches |-> TRUE,
        reason |-> {S_Logistical, S_Emotional, S_Conflict, S_UnknownClass,
                    S_ClassFailed}] >>

FirstMatching(rules) ==
    CHOOSE i \in 1..Len(rules) :
        rules[i].matches /\ \A j \in 1..(i - 1) : ~rules[j].matches

ClassifierFailed(c) ==
    c.op = "decide" /\ c.classified /\ c.api.kind = "api_error"

\* C8: when the classifier fails with an API error, timeout or rate limit
\* after its retries, decide() returns TEMPLATE_EMOTIONAL.
C8_ClassifierFailureIsEmotional ==
    ClassifierFailed(last) => last.decision = "TEMPLATE_EMOTIONAL"

\* the decision the label of a classification is routed to
DecisionFor(label) ==
    IF label = L_LOGISTICAL THEN "AUTO_REPLY"
    ELSE IF label = L_EMOTIONAL THEN "TEMPLATE_EMOTIONAL"
    ELSE IF label = L_CONFLICT THEN "TEMPLATE_CONFLICT"
    ELSE "TEMPLATE_EMOTIONAL"

\* C9: when decide() reaches classification and classify_message returns,
\* the decision is AUTO_REPLY for the label LOGISTICAL, TEMPLATE_EMOTIONAL
\* for EMOTIONAL, TEMPLATE_CONFLICT for CONFLICT and TEMPLATE_EMOTIONAL
\* for every other label.
C9_RouteByLabel ==
    (last.op = "decide" /\ last.classified /\ ~classify_message(last.api).raised)
        => last.decision = DecisionFor(classify_message(last.api).label)

\* an unrecognised label routed to TEMPLATE_EMOTIONAL
C9_Witness ==
    /\ last.op = "decide" /\ last.classified
    /\ classify_message(last.api).label = L_SPAM
    /\ last.decision = "TEMPLATE_EMOTIONAL"

\* the number of recorded replies less than window seconds old
RepliesWithin(window) ==
    Cardinality({ i \in DOMAIN state.rate_limit.reply_timestamps :
                    now - state.rate_limit.reply_timestamps[i][1] < window })

S_HourlyLimit_2_2 ==
    <<"H", "o", "u", "r", "l", "y", " ", "l", "i", "m", "i", "t", " ", "r", "e", "a", "c", "h", "e", "d", " ", "(", "2", "/", "2", ")">>

\* C10: can_send_reply() returns (False, reason) exactly when the replies of
\* the last hour number max_per_hour or more, or those of the last 24 hours
\* max_per_day or more, and (True, 'OK') otherwise; with max_per_hour = 2 and
\* 2 replies in the last hour the reason is 'Hourly limit reached (2/2)'.
C10_CanSendReply ==
    last.op = "can_send_reply" =>
        \E hour \in {RepliesWithin(SecondsPerHour)},
           day \in {RepliesWithin(HoursPerDay * SecondsPerHour)} :
            /\ last.can_send <=> (hour < config.max_replies_per_hour
                                   /\ day < config.max_replies_per_day)
            /\ last.can_send => last.reason = S_OK
            /\ ~last.can_send =>
                  \/ HasPrefix(S_HourlyLimit, last.reason)
                  \/ HasPrefix(S_DailyLimit, last.reason)
            /\ (config.max_replies_per_hour = 2 /\ hour = 2)
                  => last.reason = S_HourlyLimit_2_2

\* denied exactly at the hourly limit of 2
C10_Witness ==
    /\ last.op = "can_send_reply"
    /\ ~last.can_send
    /\ last.reason = S_HourlyLimit_2_2
    /\ Len(state.rate_limit.reply_timestamps) = config.max_replies_per_hour

\* C11: in every state the orchestrator reaches, the replies recorded within
\* the last hour number at most max_replies_per_hour and those within the
\* last 24 hours at most max_replies_per_day.
C11_LimitsRespected ==
    /\ RepliesWithin(SecondsPerHour) <= config.max_replies_per_hour
    /\ RepliesWithin(HoursPerDay * SecondsPerHour) <= config.max_replies_per_day

(***************************************************************************)
(* The reply log of one StateManager: record_reply_sent with any timestamp *)
(* argument and get_reply_timestamps, on a state file that may hold a      *)
(* garbled entry when the StateManager is constructed.                     *)
(***************************************************************************)
\* a document whose reply log holds one text that is not a timestamp
GarbledLog ==
    Put(_default_state, "rate_limit",
        Put(_default_state.rate_limit, "reply_timestamps", <<<<>>>>))

\* the timestamps record_reply_sent is called with: any instant of the clock,
\* past, present (the default) or future, and one an hour before the start
Stamps == Times \cup {0 - SecondsPerHour}

InitLog ==
    /\ config = Config(TRUE, TRUE, <<2, 2>>, FALSE, FALSE)
    /\ file \in {FileMissing, FileOf(GarbledLog)}
    /\ state = _load(file)
    /\ now = 0
    /\ last = NoCall

\* state_manager.record_reply_sent(timestamp)
RecordReplySent(timestamp, write_ok) ==
    \E raises \in {record_reply_sent_raises(state)} :
        /\ Len(Get(Get(state, "rate_limit", EmptyDict),
                   "reply_timestamps", <<>>)) <= MaxReplies
        /\ Get(get_statistics(state), "total_replies_sent", 0) < MaxReplies
        /\ state' = record_reply_sent(state, timestamp, now)
        /\ file' = IF raises THEN file ELSE _save(state', file, write_ok)
        /\ last' = [NoCall EXCEPT !.op = "record_reply_sent",
                                  !.timestamp = timestamp, !.raised = raises,
                                  !.write_ok = write_ok]
        /\ UNCHANGED <<config, now>>

\* state_manager.get_reply_timestamps(since_hours)
GetReplyTimestamps(since_hours) ==
    /\ last' = [NoCall EXCEPT !.op = "get_reply_timestamps",
                              !.hours = since_hours,
                              !.returned = get_reply_timestamps(state, now,
                                                                since_hours)]
    /\ UNCHANGED <<config, state, file, now>>

NextLog ==
    \/ \E timestamp \in Stamps : RecordReplySent(timestamp, TRUE)
    \/ \E since_hours \in {1, HoursPerDay} : GetReplyTimestamps(since_hours)
    \/ AdvanceClock

SpecLog == InitLog /\ [][NextLog]_vars

\* t is among the datetimes get_reply_timestamps(24) returns after the step
ReturnedFor24(t) ==
    \E i \in 1..Len(get_reply_timestamps(state', now', HoursPerDay)) :
        get_reply_timestamps(state', now', HoursPerDay)[i] = t

\* C12: record_reply_sent(t) immediately followed by
\* get_reply_timestamps(since_hours=24) returns a list that includes t, for
\* every t less than 24 hours old at the call: the default now, a future
\* instant, or a past one within the window.
C12_RecordedIsReturned ==
    [][(last'.op = "record_reply_sent"
        /\ now - last'.timestamp < HoursPerDay * SecondsPerHour)
          => ReturnedFor24(last'.timestamp)]_vars

\* C12 as stated, for every timestamp argument
C12_AnyTimestampIsReturned ==
    [][last'.op = "record_reply_sent" => ReturnedFor24(last'.timestamp)]_vars

\* a timestamp of the past, within the window, recorded and returned
C12_Witness ==
    /\ last.op = "record_reply_sent" /\ ~last.raised
    /\ last.timestamp < now
    /\ \E i \in 1..Len(get_reply_timestamps(state, now, HoursPerDay)) :
           get_reply_timestamps(state, now, HoursPerDay)[i] = last.timestamp

StoredLog == state.rate_limit.reply_timestamps

\* the stored entries that are timestamps less than window seconds old, in
\* their order
FreshStored(window) ==
    SelectSeq(StoredLog, LAMBDA e : Len(e) = 1 /\ now - e[1] < window)

\* C13: after a record_reply_sent() that completes no stored entry is older
\* than 24 hours at the time of the write; get_reply_timestamps(h) never
\* returns an entry older than h hours; and it skips stored entries that
\* are not timestamps, returning the others of the window.
C13_LogPruned ==
    /\ (last.op = "record_reply_sent" /\ ~last.raised)
          => \A i \in 1..Len(StoredLog) :
                 /\ Len(StoredLog[i]) = 1
                 /\ now - StoredLog[i][1] <= HoursPerDay * SecondsPerHour
    /\ last.op = "get_reply_timestamps"
          => /\ \A i \in 1..Len(last.returned) :
                    now - last.returned[i] <= last.hours * SecondsPerHour
             /\ Len(last.returned) = Len(FreshStored(last.hours * SecondsPerHour))
             /\ \A i \in 1..Len(last.returned) :
                    last.returned[i]
                        = FreshStored(last.hours * SecondsPerHour)[i][1]

\* get_reply_timestamps has returned the one fresh entry of a log that also
\* holds a garbled entry and an entry older than the window
C13_Witness ==
    /\ last.op = "get_reply_timestamps"
    /\ Len(last.returned) = 1
    /\ \E i \in 1..Len(StoredLog) : Len(StoredLog[i]) # 1
    /\ \E i \in 1..Len(StoredLog) :
           /\ Len(StoredLog[i]) = 1
           /\ now - StoredLog[i][1] > last.hours * SecondsPerHour

(***************************************************************************)
(* One StateManager and its state file: every public mutator and accessor, *)
(* each durable write succeeding or failing, and restarts, starting from a *)
(* state file that is missing, unparseable, a JSON value that is not an    *)
(* object, or a document written without the 'proactive' section.          *)
(***************************************************************************)
\* how many durable writes fail in one behaviour
MaxFailedWrites == 1

\* how far a counter or a list of the document grows in one behaviour
MaxStored == 1

\* a document of a version that had no 'proactive' section
NoProactiveSection ==
    [k \in (DOMAIN _default_state) \ {"proactive"} |-> _default_state[k]]

StoredFiles ==
    {FileMissing, FileUnparseable, FileOf(JsonArray), FileOf(NoProactiveSection)}

\* the timestamps a message arrives with
IncomingTimes == {0, SecondsPerHour}

InitStore ==
    /\ config = Config(TRUE, TRUE, <<2, 2>>, FALSE, FALSE)
    /\ file \in StoredFiles
    /\ state = _load(file)
    /\ now = 0
    /\ last = NoCall

\* a public mutator: it leaves doc in memory and, unless it has raised,
\* calls _save()
Mutator(op, timestamp, raises, doc, write_ok) ==
    /\ write_ok \/ (~raises /\ last.failed_writes < MaxFailedWrites)
    /\ state' = doc
    /\ file' = IF raises THEN file ELSE _save(doc, file, write_ok)
    /\ last' = [NoCall EXCEPT !.op = op, !.timestamp = timestamp,
                              !.raised = raises, !.write_ok = write_ok,
                              !.failed_writes = IF write_ok
                                                THEN last.failed_writes
                                                ELSE last.failed_writes + 1]
    /\ UNCHANGED <<config, now>>

\* a mutator that reads or indexes self.state: on a self.state that is not a
\* dict it raises AttributeError or TypeError and changes nothing
OnDict(op, timestamp, doc, write_ok) ==
    Mutator(op, timestamp, ~IsDict(state), IF IsDict(state) THEN doc ELSE state, write_ok)

\* a public accessor: it raises when self.state is not a dict
Accessor(op, value) ==
    /\ last' = [NoCall EXCEPT !.op = op, !.raised = ~IsDict(state),
                              !.returned = IF IsDict(state) THEN <<value>>
                                           ELSE <<>>,
                              !.failed_writes = last.failed_writes]
    /\ UNCHANGED <<config, state, file, now>>

SetLastProcessed(write_ok) ==
    OnDict("set_last_processed", now, set_last_processed(state, now, "id1"), write_ok)

AddMessageToHistory(write_ok) ==
    /\ Len(Get(state, "message_history", <<>>)) < MaxStored
    /\ OnDict("add_message_to_history", now, add_message_to_history(state, B_plain, FALSE, now, MaxStored), write_ok)

StoreRecordReplySent(write_ok) ==
    /\ Get(get_statistics(state), "total_replies_sent", 0) < MaxStored
    /\ Mutator("record_reply_sent", now, ~IsDict(state) \/ record_reply_sent_raises(state), IF IsDict(state) THEN record_reply_sent(state, now, now) ELSE state, write_ok)

IncrementStatistic(write_ok) ==
    /\ Get(get_statistics(state), "total_messages_processed", 0) < MaxStored
    /\ OnDict("increment_statistic", now, increment_statistic(state, "total_messages_processed", now), write_ok)

StoreUpdateLastIncoming(timestamp, write_ok) ==
    OnDict("update_last_incoming_message_time", timestamp, update_last_incoming_message_time(state, timestamp), write_ok)

StoreIncrementUnanswered(write_ok) ==
    /\ get_unanswered_proactive_count(state) < MaxStored
    /\ OnDict("increment_unanswered_proactive", now, increment_unanswered_proactive(state), write_ok)

ResetUnansweredProactive(write_ok) ==
    OnDict("reset_unanswered_proactive", now, reset_unanswered_proactive(state), write_ok)

StoreDisableBot(write_ok) ==
    OnDict("disable_bot", now, disable_bot(state, S_UserSaid \o B_stop), write_ok)

StoreEnableBot(write_ok) ==
    OnDict("enable_bot", now, enable_bot(state), write_ok)

\* reset() assigns self.state and reads nothing of it
StoreReset(write_ok) ==
    Mutator("reset", now, FALSE, reset(state), write_ok)

GetLastProcessedTimestamp ==
    Accessor("get_last_processed_timestamp", get_last_processed_timestamp(state))

GetMessageHistory ==
    Accessor("get_message_history", get_message_history(state, MaxStored))

GetStatistics ==
    Accessor("get_statistics", get_statistics(state))

GetLastIncomingMessageTime ==
    Accessor("get_last_incoming_message_time", get_last_incoming_message_time(state))

GetUnansweredProactiveCount ==
    Accessor("get_unanswered_proactive_count", get_unanswered_proactive_count(state))

IsBotDisabled ==
    Accessor("is_bot_disabled", is_bot_disabled(state))

GetDisabledReason ==
    Accessor("get_disabled_reason", get_disabled_reason(state))

StoreGetReplyTimestamps ==
    Accessor("get_reply_timestamps", get_reply_timestamps(state, now, HoursPerDay))

\* the process ends and a new StateManager is constructed on the state file
StoreRestart ==
    /\ state' = _load(file)
    /\ last' = [NoCall EXCEPT !.op = "restart",
                              !.failed_writes = last.failed_writes]
    /\ UNCHANGED <<config, file, now>>

NextStore ==
    \/ \E write_ok \in BOOLEAN : SetLastProcessed(write_ok)
    \/ \E write_ok \in BOOLEAN : AddMessageToHistory(write_ok)
    \/ \E write_ok \in BOOLEAN : StoreRecordReplySent(write_ok)
    \/ \E write_ok \in BOOLEAN : IncrementStatistic(write_ok)
    \/ \E timestamp \in IncomingTimes, write_ok \in BOOLEAN : StoreUpdateLastIncoming(timestamp, write_ok)
    \/ \E write_ok \in BOOLEAN : StoreIncrementUnanswered(write_ok)
    \/ \E write_ok \in BOOLEAN : ResetUnansweredProactive(write_ok)
    \/ \E write_ok \in BOOLEAN : StoreDisableBot(write_ok)
    \/ \E write_ok \in BOOLEAN : StoreEnableBot(write_ok)
    \/ \E write_ok \in BOOLEAN : StoreReset(write_ok)
    \/ GetLastProcessedTimestamp
    \/ GetMessageHistory
    \/ GetStatistics
    \/ GetLastIncomingMessageTime
    \/ GetUnansweredProactiveCount
    \/ IsBotDisabled
    \/ GetDisabledReason
    \/ StoreGetReplyTimestamps
    \/ StoreRestart

SpecStore == InitStore /\ [][NextStore]_vars

\* C14: update_last_incoming_message_time(t) sets unanswered_proactive_count
\* to 0, whatever it was, and last_incoming_message_time to t, also on a
\* loaded document that has no 'proactive' section.
C14_UpdateResetsCount ==
    [][(last'.op = "update_last_incoming_message_time" /\ IsDict(state))
          => /\ ~last'.raised
             /\ Has(state', "proactive")
             /\ Has(state'.proactive, "unanswered_proactive_count")
             /\ get_unanswered_proactive_count(state') = 0
             /\ get_last_incoming_message_time(state')
                    = isoformat(last'.timestamp)]_vars

\* update_last_incoming_message_time has just run on a loaded document
\* without the 'proactive' section
C14_Witness ==
    /\ last.op = "update_last_incoming_message_time"
    /\ file = FileOf(NoProactiveSection)
    /\ last.failed_writes = 1
    /\ get_unanswered_proactive_count(state) = 0
    /\ get_last_incoming_message_time(state) = isoformat(SecondsPerHour)

\* the step takes unanswered_proactive_count from a positive value to 0
CountCleared ==
    /\ get_unanswered_proactive_count(state) > 0
    /\ get_unanswered_proactive_count(state') = 0

\* C15: every step that takes unanswered_proactive_count from a positive
\* value to 0 is update_last_incoming_message_time(t), which sets
\* last_incoming_message_time to t; or reset_unanswered_proactive(), which
\* leaves last_incoming_message_time as it is; or reset(), which clears it;
\* or the construction of a new StateManager, which takes both from the file.
C15_CountClearedBy ==
    [][CountCleared
          => \/ /\ last'.op = "update_last_incoming_message_time"
                /\ get_last_incoming_message_time(state')
                       = isoformat(last'.timestamp)
             \/ /\ last'.op = "reset_unanswered_proactive"
                /\ get_last_incoming_message_time(state')
                       = get_last_incoming_message_time(state)
             \/ /\ last'.op = "reset"
                /\ get_last_incoming_message_time(state') = None
             \/ /\ last'.op = "restart"
                /\ state' = _load(file)]_vars

\* C15 as stated: every step that takes the count from a positive value to 0
\* also updates last_incoming_message_time
C15_CountClearedOnlyWithIncoming ==
    [][CountCleared
          => \/ last'.op = "update_last_incoming_message_time"
             \/ get_last_incoming_message_time(state')
                    # get_last_incoming_message_time(state)]_vars

\* reset_unanswered_proactive() has cleared the count of a document that has
\* sent a proactive message and keeps its last incoming message time
C15_Witness ==
    /\ last.op = "reset_unanswered_proactive" /\ ~last.raised
    /\ get_unanswered_proactive_count(state) = 0
    /\ Get(state.proactive, "last_proactive_message_time", FALSE) = TRUE
    /\ get_last_incoming_message_time(state) = isoformat(SecondsPerHour)

MutatorOps ==
    {"set_last_processed", "add_message_to_history", "record_reply_sent",
     "increment_statistic", "update_last_incoming_message_time",
     "increment_unanswered_proactive", "reset_unanswered_proactive",
     "disable_bot", "enable_bot", "reset"}

\* what get_message_history, get_statistics and get_reply_timestamps read
Contents(doc) ==
    <<Get(doc, "message_history", <<>>), get_statistics(doc),
      Get(Get(doc, "rate_limit", EmptyDict), "reply_timestamps", <<>>)>>

Applied(op, doc, timestamp) ==
    CASE op = "set_last_processed" -> set_last_processed(doc, now, "id1")
      [] op = "add_message_to_history" -> add_message_to_history(doc, B_plain, FALSE, now, MaxStored)
      [] op = "record_reply_sent" -> record_reply_sent(doc, now, now)
      [] op = "increment_statistic" -> increment_statistic(doc, "total_messages_processed", now)
      [] op = "update_last_incoming_message_time" -> update_last_incoming_message_time(doc, timestamp)
      [] op = "increment_unanswered_proactive" -> increment_unanswered_proactive(doc)
      [] op = "reset_unanswered_proactive" -> reset_unanswered_proactive(doc)
      [] op = "disable_bot" -> disable_bot(doc, S_UserSaid \o B_stop)
      [] op = "enable_bot" -> enable_bot(doc)
      [] op = "reset" -> reset(doc)

\* C19: when the durable write fails inside a public mutator, the mutator
\* returns without raising, the in-memory state keeps the mutation, and the
\* file holds what it held before the call.
C19_FailSoft ==
    [][(last'.op \in MutatorOps /\ ~last'.write_ok)
          => /\ ~last'.raised
             /\ state' = Applied(last'.op, state, last'.timestamp)
             /\ file' = file]_vars

\* a write has failed after an earlier one had succeeded: the file holds the
\* earlier document and the memory a later one
C19_Witness ==
    /\ last.op \in MutatorOps /\ ~last.write_ok /\ ~last.raised
    /\ Len(file) = 1 /\ IsDict(file[1])
    /\ file[1] # NoProactiveSection
    /\ state # file[1]

\* the state file is missing, or its content is not a state document: a text
\* that does not parse, or a JSON value that is not an object
MissingOrCorrupt(f) ==
    \/ f = FileMissing
    \/ f = FileUnparseable
    \/ Len(f) = 1 /\ ~IsDict(f[1])

\* C20: a StateManager constructed on a state file that is missing or whose
\* content is corrupt or unparseable holds the default document, and every
\* accessor and mutator called on it returns without raising.
C20_LoadFallsBack ==
    /\ (last.op \in {"none", "restart"} /\ MissingOrCorrupt(file))
          => state = _default_state
    /\ MissingOrCorrupt(file) => ~last.raised

(***************************************************************************)
(* The message history of one StateManager: add_message_to_history with    *)
(* any cap from 0 and get_message_history.                                 *)
(***************************************************************************)
\* the largest max_history a call passes
MaxCap == 2

\* the longest stored history before a call
MaxHistory == 2

InitHistory ==
    /\ config = Config(TRUE, TRUE, <<2, 2>>, FALSE, FALSE)
    /\ file = FileMissing
    /\ state = _load(file)
    /\ now = 0
    /\ last = NoCall

\* state_manager.add_message_to_history(message, from_me, now, max_history)
AppendToHistory(message, from_me, max_history) ==
    /\ Len(state.message_history) <= MaxHistory
    /\ state' = add_message_to_history(state, message, from_me, now, max_history)
    /\ file' = _save(state', file, TRUE)
    /\ last' = [NoCall EXCEPT !.op = "add_message_to_history",
                              !.message = message, !.from_me = from_me,
                              !.timestamp = now, !.cap = max_history]
    /\ UNCHANGED <<config, now>>

\* state_manager.get_message_history(limit)
ReadHistory(limit) ==
    /\ last' = [NoCall EXCEPT !.op = "get_message_history", !.cap = limit,
                              !.returned = get_message_history(state, limit)]
    /\ UNCHANGED <<config, state, file, now>>

NextHistory ==
    \/ \E message \in {B_plain, B_stop}, from_me \in BOOLEAN, max_history \in 0..MaxCap : AppendToHistory(message, from_me, max_history)
    \/ \E limit \in 1..MaxCap : ReadHistory(limit)

SpecHistory == InitHistory /\ [][NextHistory]_vars

\* the history before the step followed by the entry the step adds
WithNewEntry ==
    Append(state.message_history,
           [message |-> last'.message, from_me |-> last'.from_me,
            timestamp |-> isoformat(last'.timestamp)])

\* C16: after add_message_to_history(..., max_history=cap), for every
\* cap >= 0, the stored history has at most cap entries and is the previous
\* history followed by the new entry with only the oldest entries dropped,
\* the retained entries in insertion order.
C16_HistoryCapped ==
    [][last'.op = "add_message_to_history"
          => /\ Len(state'.message_history) <= last'.cap
             /\ \E dropped \in 0..Len(WithNewEntry) :
                    state'.message_history
                        = SubSeq(WithNewEntry, dropped + 1, Len(WithNewEntry))]_vars

(***************************************************************************)
(* _save() step by step, on the file system: the processes that write the  *)
(* state file (main.py and scripts/enable_bot.py, each with its own        *)
(* StateManager and its own lock) and a process that reads it              *)
(* (scripts/reveal_stats.py).  Here state holds each writer's position in  *)
(* _save() and file holds the directory entries of the state file and of   *)
(* the temp file, and the content of the files they name.  A document is   *)
(* written with DocChunks calls of write().                                *)
(***************************************************************************)
Writers == {"main", "enable_bot"}

\* how many times one process calls _save()
MaxSaves == 2

\* how many calls of write() json.dump makes for one document
DocChunks == 2

\* the text of the n-th document of writer w, chunk by chunk
Document(w, n) == [i \in 1..DocChunks |-> <<w, n, i>>]

Documents == { Document(w, n) : w \in Writers, n \in 0..MaxSaves }

\* no directory entry
NoFile == 0

InitFile ==
    /\ config = Config(TRUE, TRUE, <<2, 2>>, FALSE, FALSE)
    /\ state = [w \in Writers |-> [pc |-> "idle", fd |-> NoFile, offset |-> 0, saves |-> 0]]
    /\ \/ file = [contents |-> <<>>, state_file |-> NoFile, temp_file |-> NoFile]
       \/ file = [contents |-> <<Document("main", 0)>>, state_file |-> 1, temp_file |-> NoFile]
    /\ now = 0
    /\ last = NoCall

\* open(temp_file, "w"): the temp file is created, or the one there is
\* truncated
OpenTempFile(w) ==
    /\ state[w].pc = "idle"
    /\ state[w].saves < MaxSaves
    /\ \E created \in {file.temp_file = NoFile} :
       \E fd \in {IF created THEN Len(file.contents) + 1 ELSE file.temp_file} :
          /\ file' = [file EXCEPT !.contents = IF created
                                               THEN Append(file.contents, <<>>)
                                               ELSE [file.contents EXCEPT ![fd] = <<>>],
                                  !.temp_file = fd]
          /\ state' = [state EXCEPT ![w] = [pc |-> "dump", fd |-> fd, offset |-> 0,
                                            saves |-> state[w].saves + 1]]
    /\ last' = [NoCall EXCEPT !.op = "open"]
    /\ UNCHANGED <<config, now>>

\* the content of a file after chunk is written at offset
WriteAt(content, offset, chunk) ==
    [i \in 1..(IF Len(content) > offset THEN Len(content) ELSE offset + 1) |->
        IF i = offset + 1 THEN chunk
        ELSE IF i <= Len(content) THEN content[i]
        ELSE <<"hole">>]

\* json.dump(self.state, f): one write() to the open file
DumpChunk(w) ==
    /\ state[w].pc = "dump"
    /\ state[w].offset < DocChunks
    /\ file' = [file EXCEPT !.contents[state[w].fd] =
                    WriteAt(file.contents[state[w].fd], state[w].offset,
                            Document(w, state[w].saves)[state[w].offset + 1])]
    /\ state' = [state EXCEPT ![w].offset = state[w].offset + 1]
    /\ last' = [NoCall EXCEPT !.op = "write"]
    /\ UNCHANGED <<config, now>>

\* temp_file.replace(self.state_file): the state file's entry names the temp
\* file's content and the temp file's entry is gone; FileNotFoundError, caught
\* and logged, when there is no temp file
ReplaceStateFile(w) ==
    /\ state[w].pc = "dump"
    /\ state[w].offset = DocChunks
    /\ file' = IF file.temp_file = NoFile THEN file
               ELSE [file EXCEPT !.state_file = file.temp_file,
                                 !.temp_file = NoFile]
    /\ state' = [state EXCEPT ![w].pc = "idle", ![w].fd = NoFile, ![w].offset = 0]
    /\ last' = [NoCall EXCEPT !.op = "replace",
                              !.raised = (file.temp_file = NoFile)]
    /\ UNCHANGED <<config, now>>

\* the write raises (disk full, permissions): _save() logs it and returns
SaveFails(w) ==
    /\ state[w].pc = "dump"
    /\ state' = [state EXCEPT ![w].pc = "idle", ![w].fd = NoFile, ![w].offset = 0]
    /\ last' = [NoCall EXCEPT !.op = "save_failed", !.write_ok = FALSE]
    /\ UNCHANGED <<config, file, now>>

\* _load() in another process: what it reads from the state file
ReadStateFile ==
    /\ last' = [NoCall EXCEPT !.op = "read",
                              !.returned = IF file.state_file = NoFile THEN <<>>
                                           ELSE <<file.contents[file.state_file]>>]
    /\ UNCHANGED <<config, state, file, now>>

NextFile ==
    \/ \E w \in Writers : OpenTempFile(w)
    \/ \E w \in Writers : DumpChunk(w)
    \/ \E w \in Writers : ReplaceStateFile(w)
    \/ \E w \in Writers : SaveFails(w)
    \/ ReadStateFile

SpecFile == InitFile /\ [][NextFile]_vars

\* C18: a reader of the state file never observes a partial document: at
\* every instant the state file, when there is one, holds a complete document.
C18_NoPartialDocument ==
    /\ file.state_file # NoFile => file.contents[file.state_file] \in Documents
    /\ last.op = "read" => \A i \in 1..Len(last.returned) : last.returned[i] \in Documents

\* with main.py as the only process that has called _save(), the state file
\* holds a complete document at every instant
OneWriterNoPartialDocument ==
    state["enable_bot"].saves = 0
        => (file.state_file # NoFile => file.contents[file.state_file] \in Documents)

(***************************************************************************)
(* A caller of the accessors (main.py, scripts/reveal_stats.py): it holds  *)
(* what get_message_history() or get_statistics() returned and changes it. *)
(* get_message_history returns a new list of the stored entry dicts        *)
(* themselves; get_statistics returns a copy of the statistics dict.       *)
(***************************************************************************)
\* the positions, in the stored history, of the dicts that are the elements
\* of the list get_message_history(limit) returns
returned_entries(doc, limit) ==
    LET history == Get(doc, "message_history", <<>>)
        n == Len(slice_last(history, limit))
    IN  [i \in 1..n |-> Len(history) - n + i]

\* the caller appends to the list it was returned
CallerAppendsToList ==
    /\ last.op = "get_message_history"
    /\ last' = [last EXCEPT !.op = "caller_appends_to_list",
                            !.returned = Append(last.returned, [message |-> B_stop, from_me |-> TRUE, timestamp |-> isoformat(now)])]
    /\ UNCHANGED <<config, state, file, now>>

\* the caller assigns a field of an element of the list it was returned: the
\* element is the stored dict when it is one of returned_entries
CallerEditsEntry(i) ==
    /\ last.op = "get_message_history"
    /\ i \in 1..Len(last.returned)
    /\ \E entries \in {returned_entries(state, last.cap)} :
          state' = IF i \in DOMAIN entries
                   THEN [state EXCEPT !.message_history[entries[i]].message = B_empty]
                   ELSE state
    /\ last' = [last EXCEPT !.op = "caller_edits_entry",
                            !.returned[i].message = B_empty]
    /\ UNCHANGED <<config, file, now>>

\* the caller assigns a key of the dict get_statistics() returned
CallerEditsStatistics ==
    /\ last.op = "get_statistics" /\ ~last.raised
    /\ last' = [last EXCEPT !.op = "caller_edits_statistics",
                            !.returned[1].total_replies_sent = 0 - 1]
    /\ UNCHANGED <<config, state, file, now>>

NextCaller ==
    \/ \E message \in {B_plain, B_stop}, max_history \in 1..MaxCap : AppendToHistory(message, FALSE, max_history)
    \/ \E limit \in 1..MaxCap : ReadHistory(limit)
    \/ IncrementStatistic(TRUE)
    \/ GetStatistics
    \/ CallerAppendsToList
    \/ \E i \in 1..MaxCap : CallerEditsEntry(i)
    \/ CallerEditsStatistics

SpecCaller == InitHistory /\ [][NextCaller]_vars

CallerOps ==
    {"caller_appends_to_list", "caller_edits_entry", "caller_edits_statistics"}

\* C21: no mutation a caller performs on a value returned by
\* get_message_history() or get_statistics(), the entries inside the returned
\* list included, changes the StateManager's in-memory state or the file.
C21_DefensiveCopy ==
    [][last'.op \in CallerOps => (state' = state /\ file' = file)]_vars

\* what is persisted after a caller's mutation is what the mutators have
\* written: an entry that add_message_to_history stored with a text keeps it
\* in the file
PersistedUntouched ==
    Len(file) = 1 => \A i \in 1..Len(file[1].message_history) :
                        file[1].message_history[i].message # B_empty

(***************************************************************************)
(* Two threads calling increment_statistic(key) on one StateManager, step  *)
(* by step.  Here state holds the document (doc), the owner of self.lock   *)
(* and each thread's position in the call.                                 *)
(***************************************************************************)
Threads == {"t1", "t2"}

\* how many times one thread calls increment_statistic
MaxCalls == 2

NoOwner == "none"

\* a variant in which the lock excludes nobody
acquire_unlocked(lock, t) ==
    TRUE

\* with self.lock: the RLock is free, or this thread holds it already
acquire(lock, t) ==
    lock \in {NoOwner, t}

InitThreads ==
    /\ config = Config(TRUE, TRUE, <<2, 2>>, FALSE, FALSE)
    /\ file = FileMissing
    /\ state = [doc |-> _load(file), lock |-> NoOwner,
                threads |-> [t \in Threads |-> [pc |-> "idle", stats |-> EmptyDict, calls |-> 0, assigned |-> 0]]]
    /\ now = 0
    /\ last = NoCall

\* with self.lock:
AcquireLock(t) ==
    /\ state.threads[t].pc = "idle"
    /\ state.threads[t].calls < MaxCalls
    /\ acquire(state.lock, t)
    /\ state' = [state EXCEPT !.lock = t, !.threads[t].pc = "read",
                              !.threads[t].calls = state.threads[t].calls + 1]
    /\ last' = [NoCall EXCEPT !.op = "acquire"]
    /\ UNCHANGED <<config, file, now>>

\* stats = self.state.get("statistics", {}); stats.get(key, 0) + 1
ReadStatistic(t) ==
    /\ state.threads[t].pc = "read"
    /\ state' = [state EXCEPT !.threads[t].pc = "assign",
                              !.threads[t].stats = increment_statistic(state.doc, "total_messages_processed", now).statistics]
    /\ last' = [NoCall EXCEPT !.op = "read"]
    /\ UNCHANGED <<config, file, now>>

\* stats[key] = ...; self.state["statistics"] = stats
AssignStatistic(t) ==
    /\ state.threads[t].pc = "assign"
    /\ state' = [state EXCEPT !.doc = Put(state.doc, "statistics", state.threads[t].stats),
                              !.threads[t].pc = "save",
                              !.threads[t].assigned = state.threads[t].assigned + 1]
    /\ last' = [NoCall EXCEPT !.op = "assign"]
    /\ UNCHANGED <<config, file, now>>

\* self._save(), and the end of the with block
SaveAndRelease(t, write_ok) ==
    /\ state.threads[t].pc = "save"
    /\ file' = _save(state.doc, file, write_ok)
    /\ state' = [state EXCEPT !.lock = NoOwner, !.threads[t].pc = "idle"]
    /\ last' = [NoCall EXCEPT !.op = "save", !.write_ok = write_ok]
    /\ UNCHANGED <<config, now>>

NextThreads ==
    \/ \E t \in Threads : AcquireLock(t)
    \/ \E t \in Threads : ReadStatistic(t)
    \/ \E t \in Threads : AssignStatistic(t)
    \/ \E t \in Threads, write_ok \in BOOLEAN : SaveAndRelease(t, write_ok)

SpecThreads == InitThreads /\ [][NextThreads]_vars

\* C22: n concurrent increment_statistic(k) calls raise the counter by
\* exactly n, and after a call whose write completed the file equals the
\* in-memory state: no update of one thread is lost to the other.
C22_NoLostUpdate ==
    /\ state.doc.statistics.total_messages_processed
          = state.threads["t1"].assigned + state.threads["t2"].assigned
    /\ (last.op = "save" /\ last.write_ok) => file = FileOf(state.doc)

\* both threads have made all their calls, one waiting for the lock while
\* the other held it
C22_Witness ==
    /\ \A t \in Threads : state.threads[t].pc = "idle" /\ state.threads[t].calls = MaxCalls
    /\ state.doc.statistics.total_messages_processed = 2 * MaxCalls
    /\ file = FileOf(state.doc)

(***************************************************************************)
(* The calls that process_message() and check_proactive_message() make, in *)
(* program order, step by step: a StateManager method takes self.lock for  *)
(* its body; a collaborator call (classifier, generator, transport) is in  *)
(* flight from its start to its return.  Here state holds the owner of     *)
(* self.lock, the calls of the handler that runs, the position in them,    *)
(* and the collaborator call in flight.                                    *)
(***************************************************************************)
\* a call of a StateManager method
Method(name) == [call |-> name, external |-> FALSE, on_error |-> 0]

\* a call of a collaborator; when it raises, the handler goes on at the
\* call numbered on_error, or ends when there is none
External(name, on_error) == [call |-> name, external |-> TRUE, on_error |-> on_error]

\* process_message() up to decide()
Arrival ==
    << Method("increment_statistic"), Method("add_message_to_history"),
       Method("update_last_incoming_message_time"),
       Method("get_message_history"), Method("is_bot_disabled") >>

Handlers ==
    { \* a message that is classified and answered
      Arrival \o << Method("get_reply_timestamps"), Method("get_reply_timestamps"),
                    External("classify_message", 9),
                    External("generate_reply", 10),
                    External("send_message", 13),
                    Method("record_reply_sent"), Method("add_message_to_history"),
                    Method("set_last_processed") >>,
      \* a message with an emergency keyword
      Arrival \o << External("send_message", 10),
                    Method("record_reply_sent"), Method("add_message_to_history"),
                    Method("increment_statistic"), Method("set_last_processed") >>,
      \* a message with a stop keyword
      Arrival \o << Method("disable_bot"), Method("set_last_processed") >>,
      \* a message to a disabled bot
      Arrival \o << Method("get_disabled_reason"), Method("set_last_processed") >>,
      \* a message over the rate limit
      Arrival \o << Method("get_reply_timestamps"), Method("get_reply_timestamps"),
                    Method("increment_statistic"), Method("set_last_processed") >>,
      \* check_proactive_message()
      << Method("get_last_incoming_message_time"),
         Method("get_unanswered_proactive_count"),
         External("get_messages", 4), External("generate_reply", 5),
         External("send_message", 9),
         Method("increment_unanswered_proactive"), Method("record_reply_sent"),
         Method("add_message_to_history") >> }

NotInFlight == "none"

\* a variant that keeps the lock
release_kept(lock, t) ==
    lock

\* the end of a with self.lock block
release(lock, t) ==
    NoOwner

InitCalls ==
    /\ config = Config(TRUE, TRUE, <<2, 2>>, FALSE, FALSE)
    /\ file = FileMissing
    /\ state = [lock |-> NoOwner, handler |-> <<>>, pc |-> 1, inside |-> FALSE, in_flight |-> NotInFlight]
    /\ now = 0
    /\ last = NoCall

\* the poll loop starts a handler when none runs
StartHandler(handler) ==
    /\ state.pc > Len(state.handler)
    /\ state' = [state EXCEPT !.handler = handler, !.pc = 1]
    /\ last' = [NoCall EXCEPT !.op = "start_handler"]
    /\ UNCHANGED <<config, file, now>>

\* with self.lock: at the head of a StateManager method
EnterMethod ==
    /\ state.pc <= Len(state.handler)
    /\ ~state.handler[state.pc].external
    /\ ~state.inside
    /\ acquire(state.lock, "main")
    /\ state' = [state EXCEPT !.lock = "main", !.inside = TRUE]
    /\ last' = [NoCall EXCEPT !.op = state.handler[state.pc].call]
    /\ UNCHANGED <<config, file, now>>

\* the method returns
LeaveMethod ==
    /\ state.pc <= Len(state.handler)
    /\ state.inside
    /\ state' = [state EXCEPT !.lock = release(state.lock, "main"),
                              !.inside = FALSE, !.pc = state.pc + 1]
    /\ last' = [NoCall EXCEPT !.op = "return"]
    /\ UNCHANGED <<config, file, now>>

\* a collaborator call starts
StartExternal ==
    /\ state.pc <= Len(state.handler)
    /\ state.handler[state.pc].external
    /\ state.in_flight = NotInFlight
    /\ state' = [state EXCEPT !.in_flight = state.handler[state.pc].call]
    /\ last' = [NoCall EXCEPT !.op = state.handler[state.pc].call]
    /\ UNCHANGED <<config, file, now>>

\* the collaborator call returns or raises
ExternalReturns(ok) ==
    /\ state.in_flight # NotInFlight
    /\ state' = [state EXCEPT !.in_flight = NotInFlight,
                              !.pc = IF ok THEN state.pc + 1
                                     ELSE state.handler[state.pc].on_error]
    /\ last' = [NoCall EXCEPT !.op = "return", !.raised = ~ok]
    /\ UNCHANGED <<config, file, now>>

NextCalls ==
    \/ \E handler \in Handlers : StartHandler(handler)
    \/ EnterMethod
    \/ LeaveMethod
    \/ StartExternal
    \/ \E ok \in BOOLEAN : ExternalReturns(ok)

SpecCalls == InitCalls /\ [][NextCalls]_vars

\* C23: the state-manager lock is never held while a collaborator call
\* (classifier, generator, transport send or fetch) is in flight.
C23_LockFreeInFlight ==
    state.in_flight # NotInFlight => state.lock = NoOwner

\* the transport is sending a reply, after the methods that decide() and the
\* rate limiter call have taken and released the lock
C23_Witness ==
    /\ state.in_flight = "send_message"
    /\ state.lock = NoOwner
    /\ \E i \in 1..(state.pc - 1) : state.handler[i].call = "get_reply_timestamps"

(***************************************************************************)
(* utils.is_within_allowed_hours on its own: any time of day, any window.  *)
(***************************************************************************)
\* "HH:MM" texts of a configuration, each with the second of the day it names
HourMarks ==
    { [text |-> <<"2", "3", ":", "0", "0">>, seconds |-> 82800],
      [text |-> <<"0", "2", ":", "0", "0">>, seconds |-> 7200],
      [text |-> <<"0", "1", ":", "0", "0">>, seconds |-> 3600],
      [text |-> <<"1", "2", ":", "0", "0">>, seconds |-> 43200],
      [text |-> <<"0", "8", ":", "3", "0">>, seconds |-> 30600] }

\* the instants the function is asked about: each mark, the second before it
\* and the second after it, on the first days of the clock
HourInstants ==
    { day * SecondsPerDay + m.seconds + d :
        day \in 0..MaxDay, m \in HourMarks, d \in {0 - 1, 0, 1} }

InitHours ==
    /\ config = Config(TRUE, TRUE, <<2, 2>>, FALSE, FALSE)
    /\ file = FileMissing
    /\ state = _load(file)
    /\ now = 0
    /\ last = NoCall

\* is_within_allowed_hours(current_time, start_hour, end_hour)
IsWithinAllowedHours(current_time, start, end) ==
    /\ last' = [NoCall EXCEPT !.op = "is_within_allowed_hours",
                              !.timestamp = current_time,
                              !.returned = <<start, end>>,
                              !.within = is_within_allowed_hours(current_time, start.text, end.text)]
    /\ UNCHANGED <<config, state, file, now>>

NextHours ==
    \E current_time \in HourInstants, start \in HourMarks, end \in HourMarks : IsWithinAllowedHours(current_time, start, end)

SpecHours == InitHours /\ [][NextHours]_vars

\* the second of the day of the instant of the last call
SecondOfDay == last.timestamp % SecondsPerDay

\* C24: is_within_allowed_hours(t, start, end) is true iff, when end < start,
\* t >= start or t <= end, and otherwise start <= t <= end, both bounds
\* inclusive; with start 23:00 and end 02:00, 01:00 is inside and 12:00 is
\* outside.
C24_AllowedHours ==
    last.op = "is_within_allowed_hours"
        => \E s \in {last.returned[1].seconds}, e \in {last.returned[2].seconds} :
              /\ last.within
                    = IF e < s THEN SecondOfDay >= s \/ SecondOfDay <= e
                      ELSE s <= SecondOfDay /\ SecondOfDay <= e
              /\ (s = 82800 /\ e = 7200 /\ SecondOfDay = 3600) => last.within
              /\ (s = 82800 /\ e = 7200 /\ SecondOfDay = 43200) => ~last.within

\* 02:00 sharp of the second day is inside the window from 23:00 to 02:00
C24_Witness ==
    /\ last.op = "is_within_allowed_hours"
    /\ last.returned[1].seconds = 82800 /\ last.returned[2].seconds = 7200
    /\ last.timestamp = SecondsPerDay + 7200
    /\ last.within

(***************************************************************************)
(* Router.should_send_proactive_message on its own: any configuration of   *)
(* the proactive feature, any silence, any count, any jitter drawn.        *)
(***************************************************************************)
\* the largest unanswered_count and max_unanswered_proactive of a call
MaxUnanswered == 2

ProactiveConfigs ==
    { [Config(TRUE, TRUE, <<2, 2>>, FALSE, pro) EXCEPT !.max_unanswered_proactive = max]
        : pro \in BOOLEAN, max \in 0..MaxUnanswered }

\* the instants of a check: 00:30 and 01:00, the bounds of the proactive
\* window, the second after it, and a later instant inside it
CheckInstants == {1800, 3600, 3601, 2000 + SecondsPerDay}

\* the silences of a check, in seconds, around the threshold of 60 minutes
\* and around the threshold with the largest jitter
Silences == {0, 3599, 3600, 3659, 3660, 7200}

InitProactive ==
    /\ config \in ProactiveConfigs
    /\ file = FileMissing
    /\ state = _load(file)
    /\ now = 0
    /\ last = NoCall

\* router.should_send_proactive_message(last_incoming_time, current_time,
\* unanswered_count), random.randint drawing jitter
ShouldSendProactiveMessage(last_incoming_time, current_time, unanswered_count, jitter) ==
    \E p \in {should_send_proactive_message(config, last_incoming_time, current_time, unanswered_count, jitter)} :
        /\ last' = [NoCall EXCEPT !.op = "should_send_proactive_message",
                                  !.timestamp = current_time,
                                  !.returned = <<last_incoming_time, unanswered_count, jitter>>,
                                  !.can_send = p.should_send,
                                  !.reason = p.reason]
        /\ UNCHANGED <<config, state, file, now>>

NextProactive ==
    \E current_time \in CheckInstants, unanswered_count \in 0..MaxUnanswered, jitter \in 0..config.jitter_minutes :
        \E last_incoming_time \in {None} \cup {Some(current_time - s) : s \in Silences} :
            ShouldSendProactiveMessage(last_incoming_time, current_time, unanswered_count, jitter)

SpecProactive == InitProactive /\ [][NextProactive]_vars

\* the five conditions of the last call, in the order of the claim
ProactiveConditions ==
    << config.proactive_enabled,
       last.returned[2] < config.max_unanswered_proactive,
       last.returned[1] # None,
       last.returned[1] # None
          /\ last.timestamp - last.returned[1][1]
                >= (config.silence_threshold_minutes + last.returned[3]) * 60,
       last.timestamp % SecondsPerDay >= 1800 /\ last.timestamp % SecondsPerDay <= 3600 >>

\* how the reason of each failing condition begins
ProactiveReasons ==
    << S_ProactiveOff, S_AlreadySent, S_NoLastIncoming, S_SilenceDuration,
       S_OutsideProactive >>

\* C25: should_send_proactive_message returns True only if all five
\* conditions hold (and does so then), and when it returns False the reason
\* is that of the first failing condition, in the order: feature enabled,
\* unanswered_count < max_unanswered, last_incoming_time known, silence >=
\* effective threshold, now inside the proactive hours.
C25_FirstFailingCondition ==
    last.op = "should_send_proactive_message"
        => \E conditions \in {ProactiveConditions} :
              /\ last.can_send = (\A i \in 1..5 : conditions[i])
              /\ ~last.can_send
                    => \E first \in 1..5 :
                          /\ ~conditions[first]
                          /\ \A i \in 1..(first - 1) : conditions[i]
                          /\ HasPrefix(ProactiveReasons[first], last.reason)

\* the silence is below the threshold and the instant is outside the hours:
\* the reason returned is that of the silence
C25_Witness ==
    /\ last.op = "should_send_proactive_message"
    /\ ~last.can_send
    /\ \A i \in 1..3 : ProactiveConditions[i]
    /\ ~ProactiveConditions[4] /\ ~ProactiveConditions[5]
    /\ HasPrefix(S_SilenceDuration, last.reason)

\* the silence of the last call, in seconds
SilenceOfCall == last.timestamp - last.returned[1][1]

\* C27: the effective threshold of the silence gate is drawn on every
\* evaluation within [threshold, threshold + jitter] minutes: with a silence
\* below threshold the trigger never fires, and with a silence at or above
\* threshold + jitter the silence condition passes whatever jitter is drawn
\* (the call returns True or the reason of the proactive hours).
C27_JitterWindow ==
    (last.op = "should_send_proactive_message" /\ \A i \in 1..3 : ProactiveConditions[i])
        => /\ SilenceOfCall < config.silence_threshold_minutes * 60
                 => ~last.can_send /\ HasPrefix(S_SilenceDuration, last.reason)
           /\ SilenceOfCall >= (config.silence_threshold_minutes + config.jitter_minutes) * 60
                 => last.can_send \/ HasPrefix(S_OutsideProactive, last.reason)
           /\ last.returned[3] \in 0..config.jitter_minutes
           /\ HasPrefix(S_SilenceDuration, last.reason)
                 <=> SilenceOfCall < (config.silence_threshold_minutes + last.returned[3]) * 60

\* a silence between threshold and threshold + jitter that the jitter drawn
\* turns down
C27_Witness ==
    /\ last.op = "should_send_proactive_message"
    /\ \A i \in 1..3 : ProactiveConditions[i]
    /\ SilenceOfCall = 3659
    /\ last.returned[3] = 1
    /\ HasPrefix(S_SilenceDuration, last.reason)

\* the step sends a proactive message
ProactiveSent ==
    last'.op = "check_proactive_message" /\ last'.sent

DefaultTemplate == "I'll reply to this myself in a bit."
DefaultMediaTemplate == "Media message dekha, check karunga"
DefaultFallback == "I'll reply in a bit"
DefaultProactiveFallback == "Hey, how's it going? (U+1F499)"

TemplateCategories == {"emotional", "conflict", "emergency", "media"}

\* ClaudeClient._load_templates: what yaml.safe_load gives for a template
\* file.  loaded = FALSE is the None of an empty file; a file that cannot be
\* read is replaced by an empty pool with a default.  For the media file
\* templates is the pool of the media type asked for.
TemplateFiles ==
    { [loaded |-> TRUE, templates |-> <<"template one", "template two">>, default |-> Some("category default")],
      [loaded |-> TRUE, templates |-> <<>>, default |-> Some("I'll reply to this myself in a bit.")],
      [loaded |-> TRUE, templates |-> <<>>, default |-> None],
      [loaded |-> FALSE, templates |-> <<>>, default |-> None] }

\* ClaudeClient.get_template(category): ok = FALSE when it raises; pick is
\* the draw of random.choice
get_template(templates, category, pick) ==
    IF ~templates[category].loaded THEN [ok |-> FALSE, text |-> ""]
    ELSE IF templates[category].templates = <<>>
    THEN [ok |-> TRUE,
          text |-> IF IsNone(templates[category].default) THEN DefaultTemplate
                   ELSE TheValue(templates[category].default)]
    ELSE [ok |-> TRUE, text |-> templates[category].templates[pick]]

\* ClaudeClient.get_media_template(media_type)
get_media_template(templates, pick) ==
    IF ~templates["media"].loaded THEN [ok |-> FALSE, text |-> ""]
    ELSE IF templates["media"].templates = <<>>
    THEN [ok |-> TRUE,
          text |-> IF IsNone(templates["media"].default) THEN DefaultMediaTemplate
                   ELSE TheValue(templates["media"].default)]
    ELSE [ok |-> TRUE, text |-> templates["media"].templates[pick]]

\* ClaudeClient.get_fallback_template(category)
get_fallback_template(category) ==
    CASE category = "logistical" -> FallbackLogistical
      [] category = "emotional" -> "Sorry yaar, thoda busy hoon. I'll call you soon (U+1F499)"
      [] category = "conflict" -> "I can see this is important. Let me respond properly in a bit."
      [] category = "emergency" -> "Saw your message - calling you in 2 minutes (U+1F4DE)"
      [] OTHER -> DefaultFallback

\* what the API call of the generator ends in: a text, ClaudeClientError
\* (what _retry_with_backoff raises), or any other exception (a response
\* without content, for one)
GeneratorOutcomes ==
    { [raises |-> "none", text |-> "generated text"],
      [raises |-> "none", text |-> ""],
      [raises |-> "ClaudeClientError", text |-> ""],
      [raises |-> "Exception", text |-> ""] }

\* ClaudeClient.generate_reply: ok = FALSE when it raises
generate_reply(api) ==
    IF api.raises = "none" THEN [ok |-> TRUE, text |-> api.text]
    ELSE IF api.raises = "ClaudeClientError"
    THEN [ok |-> TRUE, text |-> get_fallback_template("logistical")]
    ELSE [ok |-> FALSE, text |-> ""]

\* the fallbacks of ClaudeClient.generate_proactive_message
proactive_fallback(content_type) ==
    CASE content_type = "song_suggestion" -> "Yaar, abhi ek achha gaana sun raha hoon (U+1F3B5)"
      [] content_type = "joke" -> "Arrey just remembered something funny (U+1F604)"
      [] content_type = "discussion_topic" -> "Woh jo baat ho rahi thi - was thinking about it"
      [] content_type = "check_in" -> "How's your day going? Sab theek?"
      [] content_type = "thought_share" -> "Just thought of something interesting"
      [] OTHER -> DefaultProactiveFallback

\* ClaudeClient.generate_proactive_message(content_type, context)
generate_proactive_message(content_type, api) ==
    IF api.raises = "none" THEN [ok |-> TRUE, text |-> api.text]
    ELSE IF api.raises = "ClaudeClientError"
    THEN [ok |-> TRUE, text |-> proactive_fallback(content_type)]
    ELSE [ok |-> FALSE, text |-> ""]

\* a configured weight: an integer n, or something else (0.5, "high")
MaxWeight == 2
Weight(n) == [integer |-> TRUE, n |-> n]
NotAnInteger == [integer |-> FALSE, n |-> 0]
WeightValues == {Weight(n) : n \in -1..MaxWeight} \cup {NotAnInteger}

\* [content_type] * weight
Repeat(content_type, weight) ==
    [i \in 1..(IF weight > 0 THEN weight ELSE 0) |-> content_type]

\* the variant every_type takes every configured type once, whatever its
\* weight
RECURSIVE weighted_choices_every_type(_, _)
weighted_choices_every_type(content_types, weights) ==
    IF content_types = <<>> THEN <<>>
    ELSE <<Head(content_types)>> \o weighted_choices_every_type(Tail(content_types), weights)

\* the list built by the loop of lines 255-258: a type without weight counts
\* once
RECURSIVE weighted_choices(_, _)
weighted_choices(content_types, weights) ==
    IF content_types = <<>> THEN <<>>
    ELSE Repeat(Head(content_types), Get(weights, Head(content_types), Weight(1)).n)
         \o weighted_choices(Tail(content_types), weights)

\* the loop raises TypeError at a weight that is not an integer
weights_raise(content_types, weights) ==
    \E i \in 1..Len(content_types) :
        ~Get(weights, content_types[i], Weight(1)).integer

\* config.get("proactive_messaging.content_types", ["check_in"])
configured_content_types(cfg) ==
    IF IsNone(cfg.content_types) THEN <<"check_in">> ELSE TheValue(cfg.content_types)

\* chosen_type: choice is the draw of random.choice
chosen_type(cfg, choice) ==
    IF weighted_choices(configured_content_types(cfg), cfg.content_weights) = <<>>
    THEN "check_in"
    ELSE weighted_choices(configured_content_types(cfg), cfg.content_weights)[choice]

\* what the collaborator called by execute_decision hands back, for
\* execute_decision(decision, whatsapp_message, gen)
collaborator(cfg, decision, api, pick, choice) ==
    CASE decision = "AUTO_REPLY" -> generate_reply(api)
      [] decision = "PROACTIVE_MESSAGE" ->
            IF weights_raise(configured_content_types(cfg), cfg.content_weights)
            THEN [ok |-> FALSE, text |-> ""]
            ELSE generate_proactive_message(chosen_type(cfg, choice), api)
      [] decision = "TEMPLATE_MEDIA" -> get_media_template(cfg.templates, pick)
      [] decision = "TEMPLATE_EMERGENCY" -> get_template(cfg.templates, "emergency", pick)
      [] decision = "TEMPLATE_EMOTIONAL" -> get_template(cfg.templates, "emotional", pick)
      [] decision = "TEMPLATE_CONFLICT" -> get_template(cfg.templates, "conflict", pick)
      [] OTHER -> [ok |-> TRUE, text |-> ""]

\* the template branches of execute_decision have no try/except: what the
\* template library raises leaves execute_decision
execute_decision_raises(decision, whatsapp_message, gen) ==
    /\ ~gen.ok
    /\ \/ decision \in {"TEMPLATE_EMERGENCY", "TEMPLATE_EMOTIONAL", "TEMPLATE_CONFLICT"}
       \/ /\ decision = "TEMPLATE_MEDIA"
          /\ ~IsNone(whatsapp_message)
          /\ ~IsNone(TheValue(whatsapp_message).media_type)
          /\ TheValue(TheValue(whatsapp_message).media_type) # <<>>

TemplateDecisions ==
    {"TEMPLATE_EMERGENCY", "TEMPLATE_EMOTIONAL", "TEMPLATE_CONFLICT", "TEMPLATE_MEDIA"}

DecisionVariants ==
    {"AUTO_REPLY", "TEMPLATE_EMOTIONAL", "TEMPLATE_CONFLICT", "TEMPLATE_EMERGENCY",
     "TEMPLATE_MEDIA", "PROACTIVE_MESSAGE", "NO_REPLY_LOG", "STOP_DETECTED"}

GoodLibrary == [c \in TemplateCategories |-> [loaded |-> TRUE, templates |-> <<"template one", "template two">>, default |-> Some("category default")]]

\* the libraries: every file as it should be but one
Libraries ==
    { [GoodLibrary EXCEPT ![c] = f] : c \in TemplateCategories, f \in TemplateFiles }

WeightedTypes == {"check_in", "joke"}

ExecuteConfigs ==
    { [templates |-> l, content_types |-> t, content_weights |-> w] :
        l \in Libraries,
        t \in {None, Some(<<>>), Some(<<"joke">>), Some(<<"check_in", "joke">>),
               Some(<<"joke", "song_suggestion">>)},
        w \in UNION { [d -> WeightValues] : d \in SUBSET WeightedTypes } }

InitExecute ==
    /\ config \in ExecuteConfigs
    /\ file = FileMissing
    /\ state = _load(FileMissing)
    /\ now = 0
    /\ last = NoCall

\* Router.execute_decision(decision, message, context, whatsapp_message)
\* with the draws of the random choices and the outcome of the API call.
\* last.returned holds the outcome of the API call, last.key the content
\* type the generator was called with, last.hours the draw of that type.
ExecuteDecision(decision, whatsapp_message, api, pick, choice) ==
    \E gen \in {collaborator(config, decision, api, pick, choice)} :
    \E raises \in {execute_decision_raises(decision, whatsapp_message, gen)} :
        /\ last' = [NoCall EXCEPT !.op = "execute_decision",
                                  !.decision = decision,
                                  !.whatsapp_message = whatsapp_message,
                                  !.raised = raises,
                                  !.returned = <<api>>,
                                  !.hours = choice,
                                  !.key = IF decision = "PROACTIVE_MESSAGE"
                                             /\ ~weights_raise(configured_content_types(config), config.content_weights)
                                          THEN chosen_type(config, choice) ELSE "",
                                  !.reply = IF raises THEN None
                                            ELSE execute_decision(decision, whatsapp_message, gen)]
        /\ UNCHANGED <<config, state, file, now>>

\* an input that the decision does not look at is not varied
NextExecute ==
    \E decision \in DecisionVariants :
    \E api \in (IF decision \in {"AUTO_REPLY", "PROACTIVE_MESSAGE"} THEN GeneratorOutcomes
                ELSE {[raises |-> "none", text |-> ""]}) :
    \E pick \in (IF decision \in TemplateDecisions THEN 1..2 ELSE {1}) :
    \E whatsapp_message \in (IF decision = "TEMPLATE_MEDIA"
                              THEN {None, Some([body |-> B_empty, media_type |-> None]),
                                    Some([body |-> B_empty, media_type |-> Some(MT_image)])}
                              ELSE {None}) :
    \E choice \in (IF decision = "PROACTIVE_MESSAGE"
                    THEN 1..Len(weighted_choices(configured_content_types(config), config.content_weights))
                    ELSE {}) \cup {1} :
        ExecuteDecision(decision, whatsapp_message, api, pick, choice)

SpecExecute == InitExecute /\ [][NextExecute]_vars

GeneratorFailed == last.returned[1].raises # "none"

\* C28: execute_decision is total over the Decision variants and never
\* raises: NO_REPLY_LOG and STOP_DETECTED return None; AUTO_REPLY returns the
\* generated text or, when the generator fails, the fixed logistical fallback
\* phrase; PROACTIVE_MESSAGE returns the generated text or, on failure, the
\* fixed check-in phrase; a template decision returns a template string.
C28_ExecuteTotal ==
    last.op = "execute_decision"
        => /\ ~last.raised
           /\ last.decision \in {"NO_REPLY_LOG", "STOP_DETECTED"} => IsNone(last.reply)
           /\ last.decision = "AUTO_REPLY"
                 => last.reply = Some(IF GeneratorFailed THEN FallbackLogistical
                                      ELSE last.returned[1].text)
           /\ last.decision = "PROACTIVE_MESSAGE"
                 => last.reply = Some(IF GeneratorFailed THEN FallbackProactive
                                      ELSE last.returned[1].text)
           /\ last.decision \in TemplateDecisions => ~IsNone(last.reply)

\* the part of C28 about raising alone: no call of execute_decision raises
C28_NeverRaises ==
    last.op = "execute_decision" => ~last.raised

\* what execute_decision does return: it raises only for a template decision
\* whose template file was empty; the generator failing with
\* ClaudeClientError gives the fallback of the content type for a proactive
\* message; TEMPLATE_MEDIA without media type gives None
ExecuteDecisionOutcome ==
    last.op = "execute_decision"
        => /\ last.raised
                => /\ last.decision \in TemplateDecisions
                   /\ \E c \in TemplateCategories : ~config.templates[c].loaded
           /\ last.decision \in {"NO_REPLY_LOG", "STOP_DETECTED"}
                 => ~last.raised /\ IsNone(last.reply)
           /\ last.decision = "AUTO_REPLY"
                 => /\ ~last.raised
                    /\ last.reply = Some(IF GeneratorFailed THEN FallbackLogistical
                                         ELSE last.returned[1].text)
           /\ last.decision = "PROACTIVE_MESSAGE"
                 => /\ ~last.raised
                    /\ last.reply
                          = Some(IF last.key = "" \/ last.returned[1].raises = "Exception"
                                 THEN FallbackProactive
                                 ELSE IF GeneratorFailed THEN proactive_fallback(last.key)
                                 ELSE last.returned[1].text)
           /\ (last.decision \in TemplateDecisions /\ ~last.raised /\ IsNone(last.reply))
                 => /\ last.decision = "TEMPLATE_MEDIA"
                    /\ \/ IsNone(last.whatsapp_message)
                       \/ IsNone(TheValue(last.whatsapp_message).media_type)

\* an emergency template is asked for and its template file was empty
C28_RaisedForEmergency ==
    /\ last.op = "execute_decision" /\ last.decision = "TEMPLATE_EMERGENCY"
    /\ last.raised

\* the last call asked the generator for a proactive message
ProactiveGenerated ==
    last.op = "execute_decision" /\ last.decision = "PROACTIVE_MESSAGE" /\ last.key # ""

ConfiguredTypes ==
    {configured_content_types(config)[i] : i \in 1..Len(configured_content_types(config))}

\* C29 as the specification has it: the content type passed to the generator
\* is a configured type whose weight is present and greater than 0, and when
\* no weights are configured at all it is the default type
C29_WeightPresentAndPositive ==
    ProactiveGenerated
        => IF DOMAIN config.content_weights = {} THEN last.key = "check_in"
           ELSE /\ last.key \in ConfiguredTypes
                /\ Has(config.content_weights, last.key)
                /\ config.content_weights[last.key].n > 0

\* the configured types that can be drawn: weight greater than 0, or no
\* weight
DrawableTypes ==
    {t \in ConfiguredTypes : Get(config.content_weights, t, Weight(1)).n > 0}

\* C29: for PROACTIVE_MESSAGE the content type passed to the generator is a
\* configured type whose weight is greater than 0 or not configured (it then
\* counts as 1); a type with weight 0 or less is never chosen while another
\* type can be; when no configured type can be drawn the type is "check_in"
C29_ChosenType ==
    ProactiveGenerated
        => IF DrawableTypes = {} THEN last.key = "check_in"
           ELSE last.key \in DrawableTypes

\* a type without weight is passed to the generator although weights are
\* configured
C29_Witness ==
    /\ ProactiveGenerated
    /\ last.key = "song_suggestion"
    /\ DOMAIN config.content_weights # {}
    /\ ~Has(config.content_weights, last.key)

(***************************************************************************)
(* Two runs of Router.decide from the same state file, configuration,      *)
(* current_time, message and classifier outcome.  What the runs do not     *)
(* share is the clock: the first run is made at now, the second at any     *)
(* instant from now on.                                                    *)
(***************************************************************************)
\* disable_bot stamps disabled_at with datetime.now()
disabled_at(r, clock) ==
    IF IsNone(r.disable) THEN None ELSE Some(clock)

\* one run of decide(message, current_time, whatsapp_message) at clock on a
\* StateManager holding doc: what it returns and what it leaves in the file
Run(doc, c, current_time, clock, api) ==
    LET r == decide_at(config, doc, TRUE, c.body, current_time, clock,
                       IF c.pass_message
                       THEN Some([body |-> c.body, media_type |-> c.media_type])
                       ELSE None,
                       api)
    IN  [decision |-> r.decision, reason |-> r.reason,
         classified |-> r.classified,
         persisted |-> IF IsNone(r.disable) THEN doc
                       ELSE disable_bot(doc, TheValue(r.disable)),
         disabled_at |-> disabled_at(r, clock)]

\* the two runs; the state goes on from the first.  The classifier's outcome
\* is drawn when either run reaches classify_message.
DecideTwice(c, current_time, clock) ==
    \E probe1 \in {Run(state, c, current_time, now, NoApi)} :
    \E probe2 \in {Run(state, c, current_time, clock, NoApi)} :
    \E api \in (IF probe1.classified \/ probe2.classified THEN ApiOutcomes ELSE {NoApi}) :
    \E run1 \in {Run(state, c, current_time, now, api)} :
    \E run2 \in {Run(state, c, current_time, clock, api)} :
        /\ state' = run1.persisted
        /\ file' = IF run1.persisted = state THEN file ELSE _save(state', file, TRUE)
        /\ last' = [NoCall EXCEPT !.op = "decide_twice",
                                  !.message = c.body,
                                  !.timestamp = current_time,
                                  !.hours = clock,
                                  !.returned = <<run1, run2>>]
        /\ UNCHANGED <<config, now>>

\* a plain message, a stop message, an emergency message, a media message
RunCalls ==
    { Call(B_plain, None, FALSE), Call(B_stop, None, TRUE),
      Call(B_urgent, None, FALSE), Call(B_empty, Some(MT_image), TRUE) }

NextRuns ==
    \/ \E c \in RunCalls, current_time \in Times, clock \in {t \in Times : t >= now} :
          DecideTwice(c, current_time, clock)
    \/ RecordReply(TRUE)
    \/ EnableBot(TRUE)
    \/ AdvanceClock

SpecRuns == InitRouter /\ [][NextRuns]_vars

\* C30: decide() is deterministic: two runs started from identical persisted
\* state, configuration, current_time, message and classifier outcome return
\* the same (Decision, reason) and leave identical persisted state, each
\* returning exactly one Decision.
C30_Deterministic ==
    last.op = "decide_twice"
        => /\ \A i \in 1..2 : last.returned[i].decision \in DecisionVariants
           /\ last.returned[1].decision = last.returned[2].decision
           /\ last.returned[1].reason = last.returned[2].reason
           /\ last.returned[1].persisted = last.returned[2].persisted
           /\ last.returned[1].disabled_at = last.returned[2].disabled_at

\* the part of C30 about the returned pair alone
C30_SameDecision ==
    last.op = "decide_twice"
        => /\ last.returned[1].decision = last.returned[2].decision
           /\ last.returned[1].reason = last.returned[2].reason

\* two runs made at the same reading of the clock do agree
SameClockSameOutcome ==
    (last.op = "decide_twice" /\ last.hours = now)
        => last.returned[1] = last.returned[2]

\* the first run is refused by the rate limit and the second, made an hour
\* later with the same current_time, reaches the classifier
C30_RateLimitedOnlyOnce ==
    /\ last.op = "decide_twice"
    /\ HasPrefix(S_RateLimit, last.returned[1].reason)
    /\ last.returned[2].classified

(***************************************************************************)
(* main.py poll_loop with whatsapp_client.py get_new_messages: the fetch   *)
(* of a poll cycle, its messages handled one after the other, and a        *)
(* restart of the process.  Here state holds the StateManager document     *)
(* (doc), WhatsAppClient.last_message_timestamp (mark), the messages of    *)
(* the chat at the transport (chat), the messages of the running fetch     *)
(* that are still to be handled (pending) and, as a record of what         *)
(* happened, the ids handed to process_message (processed), the number of  *)
(* restarts, and whether a message of the running fetch ended in an        *)
(* exception (fetch_faults).  A message is [id, from_me, timestamp], its   *)
(* timestamp a text.                                                       *)
(***************************************************************************)
MaxMessages == 2
MaxTicks == 3
MaxRestarts == 1
Tick == 150
\* message_lookback_minutes = 5, in seconds
Lookback == 300
DefaultMaxHistory == 20

RECURSIVE max_timestamp(_)
max_timestamp(messages) ==
    IF Len(messages) = 1 THEN fromisoformat(messages[1].timestamp)
    ELSE IF fromisoformat(messages[1].timestamp) >= max_timestamp(Tail(messages))
    THEN fromisoformat(messages[1].timestamp)
    ELSE max_timestamp(Tail(messages))

\* the filter of get_new_messages on one message
is_new(msg, mark, cutoff_time) ==
    /\ ~msg.from_me
    /\ ~fromisoformat_raises(msg.timestamp)
    /\ ~(fromisoformat(msg.timestamp) < cutoff_time)
    /\ ~(~IsNone(mark) /\ fromisoformat(msg.timestamp) <= TheValue(mark))

\* WhatsAppClient.get_new_messages(chat_jid, since_minutes) on the messages
\* the transport lists: the new messages in the order listed, and the mark
\* after the call
get_new_messages(messages, mark, now_, since_seconds) ==
    LET new_messages == SelectSeq(messages, LAMBDA msg : is_new(msg, mark, now_ - since_seconds))
    IN  [new_messages |-> new_messages,
         last_message_timestamp |-> IF new_messages = <<>> THEN mark
                                    ELSE Some(max_timestamp(new_messages))]

\* Python's reversed list
Reversed(s) == [i \in 1..Len(s) |-> s[Len(s) + 1 - i]]

\* what handling one message ends in: no reply, a reply sent, a send that
\* fails, or an unexpected exception out of decide or execute_decision
Outcomes == {"no reply", "replied", "send failed", "fault"}

\* WhatsAppAssistant.process_message(message) on the document, for a message
\* whose timestamp parses (get_new_messages hands over no other): the
\* statistics, the history, the incoming time, then, by the outcome, the
\* reply record with the history entry of the reply, and last at all the
\* last-processed mark, which an exception skips, be it the fault of decide
\* or the ValueError of record_reply_sent after the send
process_message(doc, msg, outcome, now_) ==
    LET counted == increment_statistic(doc, "total_messages_processed", now_)
        heard == update_last_incoming_message_time(
                     add_message_to_history(counted, B_plain, FALSE,
                                            fromisoformat(msg.timestamp), DefaultMaxHistory),
                     fromisoformat(msg.timestamp))
        recorded == record_reply_sent(heard, now_, now_)
        answered == IF outcome = "replied"
                    THEN add_message_to_history(recorded, B_blank, TRUE, now_, DefaultMaxHistory)
                    ELSE heard
    IN  IF outcome = "fault" THEN heard
        ELSE IF outcome = "replied" /\ record_reply_sent_raises(heard) THEN recorded
        ELSE set_last_processed(answered, fromisoformat(msg.timestamp), msg.id)

\* a variant in which the exception leaves process_message: poll_loop
\* catches it and gives up the rest of the fetch
remaining_after_propagated(pending, outcome) ==
    IF outcome = "fault" THEN <<>> ELSE Tail(pending)

\* poll_loop's for loop after process_message(message): process_message
\* catches the exception of decide or execute_decision itself and returns,
\* so the loop goes on with the next message
remaining_after(pending, outcome) ==
    Tail(pending)

InitPoll ==
    /\ config = [lookback |-> Lookback]
    /\ file = FileMissing
    /\ state = [doc |-> _load(FileMissing), mark |-> None, chat |-> <<>>,
                pending |-> <<>>, processed |-> <<>>, restarts |-> 0,
                fetch_faults |-> 0]
    /\ now = 0
    /\ last = NoCall

\* a message reaches the chat: from the target or from me, with a timestamp
\* that parses or not
Arrive(from_me, timestamp_ok) ==
    /\ Len(state.chat) < MaxMessages
    /\ state' = [state EXCEPT !.chat = Append(@, [id |-> Len(state.chat) + 1,
                                                  from_me |-> from_me,
                                                  timestamp |-> IF timestamp_ok THEN isoformat(now) ELSE <<>>])]
    /\ last' = [NoCall EXCEPT !.op = "arrive"]
    /\ UNCHANGED <<config, file, now>>

\* poll_loop: the fetch of a cycle; the transport lists the chat oldest
\* first or newest first
Fetch(newest_first) ==
    /\ state.pending = <<>>
    /\ \E r \in {get_new_messages(IF newest_first THEN Reversed(state.chat) ELSE state.chat,
                                  state.mark, now, config.lookback)} :
          /\ state' = [state EXCEPT !.pending = r.new_messages,
                                    !.mark = r.last_message_timestamp,
                                    !.fetch_faults = 0]
          /\ last' = [NoCall EXCEPT !.op = "get_new_messages",
                                    !.returned = r.new_messages,
                                    !.from_me = newest_first]
    /\ UNCHANGED <<config, file, now>>

\* poll_loop: await self.process_message(message) for the next message of
\* the fetch
ProcessNext(outcome) ==
    /\ state.pending # <<>>
    /\ state' = [state EXCEPT !.doc = process_message(@, Head(state.pending), outcome, now),
                              !.pending = remaining_after(@, outcome),
                              !.processed = Append(@, Head(state.pending).id),
                              !.fetch_faults = IF outcome = "fault" THEN 1 ELSE @]
    /\ file' = _save(state'.doc, file, TRUE)
    /\ last' = [NoCall EXCEPT !.op = "process_message",
                              !.key = outcome,
                              !.returned = <<Head(state.pending)>>,
                              !.timestamp = fromisoformat(Head(state.pending).timestamp)]
    /\ UNCHANGED <<config, now>>

\* the process ends, between two messages or between two cycles, and is
\* started again: StateManager loads the file, WhatsAppClient starts with
\* no mark
RestartPoll ==
    /\ state.restarts < MaxRestarts
    /\ state' = [state EXCEPT !.doc = _load(file), !.mark = None, !.pending = <<>>,
                              !.restarts = @ + 1, !.fetch_faults = 0]
    /\ last' = [NoCall EXCEPT !.op = "restart"]
    /\ UNCHANGED <<config, file, now>>

TickClock ==
    /\ now < MaxTicks * Tick
    /\ now' = now + Tick
    /\ last' = [NoCall EXCEPT !.op = "clock"]
    /\ UNCHANGED <<config, state, file>>

NextPoll ==
    \/ \E from_me \in BOOLEAN, timestamp_ok \in BOOLEAN :
          (from_me => timestamp_ok) /\ Arrive(from_me, timestamp_ok)
    \/ \E newest_first \in BOOLEAN : Fetch(newest_first)
    \/ \E outcome \in Outcomes : ProcessNext(outcome)
    \/ RestartPoll
    \/ TickClock

SpecPoll == InitPoll /\ [][NextPoll]_vars

\* the high-water mark of the document, 0 while there is none
LastProcessed(doc) ==
    IF IsNone(get_last_processed_timestamp(doc)) THEN 0
    ELSE fromisoformat(get_last_processed_timestamp(doc))

\* C31: last_processed_timestamp never decreases, in whatever order the
\* transport returns the messages, and the messages of one fetch are handled
\* in fetch order, one by one.
C31_MonotonicMark ==
    [][/\ LastProcessed(state'.doc) >= LastProcessed(state.doc)
       /\ last'.op = "process_message"
             => /\ last'.returned[1] = Head(state.pending)
                /\ state'.pending = Tail(state.pending)]_vars

\* the part of C31 about the order alone
FetchOrderKept ==
    [][last'.op = "process_message"
          => /\ last'.returned[1] = Head(state.pending)
             /\ state'.pending = Tail(state.pending)]_vars

\* the mark went down
C31_MarkWentDown ==
    /\ last.op = "process_message"
    /\ LastProcessed(state.doc) = last.timestamp
    /\ \E i \in 1..Len(state.processed) :
          fromisoformat(state.chat[state.processed[i]].timestamp) > LastProcessed(state.doc)

\* C32: no inbound message is handed to process_message more than once, and
\* none whose timestamp is at or below the last-processed mark, across poll
\* cycles and across a restart of the process.
C32_ProcessedOnce ==
    [][/\ \A i, j \in 1..Len(state'.processed) :
             state'.processed[i] = state'.processed[j] => i = j
       /\ (last'.op = "process_message" /\ ~IsNone(get_last_processed_timestamp(state.doc)))
             => last'.timestamp > LastProcessed(state.doc)]_vars

\* what does hold: while the process lives, no message is handed over twice
ProcessedOnceWhileLive ==
    state.restarts = 0
        => \A i, j \in 1..Len(state.processed) :
               state.processed[i] = state.processed[j] => i = j

\* a message is handled a second time after a restart
C32_HandledTwice ==
    /\ last.op = "process_message"
    /\ \E i, j \in 1..Len(state.processed) : i # j /\ state.processed[i] = state.processed[j]

ReplyLog(doc) == doc.rate_limit.reply_timestamps

\* C33: an unexpected exception of decide or execute_decision for one
\* message does not stop the loop: the messages after it in the fetch stay
\* to be handled, next in line, and no reply is recorded for the message,
\* neither a timestamp nor the count.
C33_FaultSkipsOneMessage ==
    [][(last'.op = "process_message" /\ last'.key = "fault")
          => /\ state'.pending = Tail(state.pending)
             /\ ReplyLog(state'.doc) = ReplyLog(state.doc)
             /\ state'.doc.statistics.total_replies_sent
                   = state.doc.statistics.total_replies_sent
             /\ file' = FileOf(state'.doc)]_vars

\* a reply goes out for a message of a fetch in which an earlier message
\* ended in an exception
C33_Witness ==
    /\ last.op = "process_message" /\ last.key = "replied"
    /\ state.fetch_faults > 0
    /\ Len(ReplyLog(state.doc)) > 0

(***************************************************************************)
(* rate_limiter.py time_until_next_available.  The instants of this        *)
(* section count half seconds (datetime has microseconds), so that the     *)
(* int() of line 119 has a fraction to cut; state is the StateManager      *)
(* document with its reply timestamps as such instants.                    *)
(***************************************************************************)
PerSecond == 2

\* int(remaining) for a number of half seconds: the whole seconds, cut
\* towards zero
int_of_seconds(half_seconds) ==
    IF half_seconds >= 0 THEN half_seconds \div PerSecond
    ELSE 0 - ((0 - half_seconds) \div PerSecond)

\* StateManager.get_reply_timestamps(since_hours) at now_
reply_timestamps_since(doc, now_, since_hours) ==
    LET timestamps == Get(Get(doc, "rate_limit", EmptyDict), "reply_timestamps", <<>>)
        cutoff == now_ - (since_hours * SecondsPerHour * PerSecond)
        recent == SelectSeq(timestamps, LAMBDA ts_str : /\ ~fromisoformat_raises(ts_str)
                                                        /\ fromisoformat(ts_str) > cutoff)
    IN  [i \in 1..Len(recent) |-> fromisoformat(recent[i])]

\* RateLimiter.can_send_reply() at now_: can_send alone
can_send_at(cfg, doc, now_) ==
    /\ ~(Len(reply_timestamps_since(doc, now_, 1)) >= cfg.max_replies_per_hour)
    /\ ~(Len(reply_timestamps_since(doc, now_, HoursPerDay)) >= cfg.max_replies_per_day)

\* sorted(last_hour_replies)[0]
RECURSIVE oldest_of(_)
oldest_of(replies) ==
    IF Len(replies) = 1 THEN replies[1]
    ELSE IF replies[1] <= oldest_of(Tail(replies)) THEN replies[1]
    ELSE oldest_of(Tail(replies))

\* RateLimiter.time_until_next_available() at now_, in seconds
time_until_next_available(cfg, doc, now_) ==
    IF can_send_at(cfg, doc, now_) THEN 0
    ELSE IF reply_timestamps_since(doc, now_, 1) = <<>> THEN 0
    ELSE IF int_of_seconds(SecondsPerHour * PerSecond
                           - (now_ - oldest_of(reply_timestamps_since(doc, now_, 1)))) > 0
    THEN int_of_seconds(SecondsPerHour * PerSecond
                        - (now_ - oldest_of(reply_timestamps_since(doc, now_, 1))))
    ELSE 0

\* StateManager.record_reply_sent() at now_
record_reply_sent_at(doc, now_) ==
    LET rate_limit == Get(doc, "rate_limit", EmptyDict)
        appended == Append(Get(rate_limit, "reply_timestamps", <<>>), isoformat(now_))
        cutoff == now_ - (HoursPerDay * SecondsPerHour * PerSecond)
        stats == Get(doc, "statistics", EmptyDict)
    IN  Put(Put(doc, "rate_limit",
                Put(rate_limit, "reply_timestamps",
                    SelectSeq(appended, LAMBDA ts : fromisoformat(ts) > cutoff))),
            "statistics",
            Put(Put(stats, "total_replies_sent", Get(stats, "total_replies_sent", 0) + 1),
                "last_updated", Some(now_)))

\* how far the clock of this section goes, in hours
MaxHours == 2

\* the instants at which the clock is read, in half seconds: the start, half
\* a second and ten seconds and a half later, and the same an hour later,
\* with the half second before
AvailInstants ==
    UNION { {h * SecondsPerHour * PerSecond + d : d \in {0, 1, 21}} \cup
            {(h + 1) * SecondsPerHour * PerSecond - 1} : h \in 0..(MaxHours - 1) }

InitAvail ==
    /\ config \in {Config(TRUE, TRUE, lim, FALSE, FALSE) : lim \in {<<1, 2>>, <<2, 2>>}}
    /\ file = FileMissing
    /\ state = _load(FileMissing)
    /\ now = 0
    /\ last = NoCall

\* rate_limiter.record_reply()
RecordReplyAt ==
    /\ Len(state.rate_limit.reply_timestamps) < MaxReplies
    /\ state' = record_reply_sent_at(state, now)
    /\ file' = _save(state', file, TRUE)
    /\ last' = [NoCall EXCEPT !.op = "record_reply"]
    /\ UNCHANGED <<config, now>>

\* rate_limiter.time_until_next_available()
TimeUntilNextAvailable ==
    /\ last' = [NoCall EXCEPT !.op = "time_until_next_available",
                              !.can_send = can_send_at(config, state, now),
                              !.timestamp = now,
                              !.hours = time_until_next_available(config, state, now)]
    /\ UNCHANGED <<config, state, file, now>>

\* the caller sleeps for the seconds time_until_next_available returned and
\* asks can_send_reply()
WaitAndAsk ==
    /\ last.op = "time_until_next_available"
    /\ now' = now + last.hours * PerSecond
    /\ last' = [NoCall EXCEPT !.op = "waited",
                              !.hours = last.hours,
                              !.can_send = can_send_at(config, state, now')]
    /\ UNCHANGED <<config, state, file>>

StepClock(instant) ==
    /\ instant > now
    /\ now' = instant
    /\ last' = [NoCall EXCEPT !.op = "clock"]
    /\ UNCHANGED <<config, state, file>>

NextAvail ==
    \/ RecordReplyAt
    \/ TimeUntilNextAvailable
    \/ WaitAndAsk
    \/ \E instant \in AvailInstants : StepClock(instant)

SpecAvail == InitAvail /\ [][NextAvail]_vars

\* the hourly limit is what refuses at now
HourlyLimitBlocks ==
    Len(reply_timestamps_since(state, now, 1)) >= config.max_replies_per_hour

\* C34: time_until_next_available() returns 0 whenever can_send_reply()
\* allows; its result is within 0..3600; and when the hourly limit is what
\* refuses, after waiting the seconds returned the hourly count is below the
\* limit.
C34_WaitIsEnough ==
    last.op = "time_until_next_available"
        => /\ last.can_send => last.hours = 0
           /\ last.hours \in 0..SecondsPerHour
           /\ HourlyLimitBlocks
                 => Len(reply_timestamps_since(state, now + last.hours * PerSecond, 1))
                        < config.max_replies_per_hour

\* the part of C34 that holds: 0 when allowed, within 0..3600, no reply in
\* the last hour gives 0, and with the hourly count at the limit (replies
\* that pass by the limit can take it above) one second more than returned
\* is enough
C34_ZeroWhenAllowed ==
    last.op = "time_until_next_available"
        => /\ last.can_send => last.hours = 0
           /\ last.hours \in 0..SecondsPerHour
           /\ reply_timestamps_since(state, now, 1) = <<>> => last.hours = 0
           /\ Len(reply_timestamps_since(state, now, 1)) = config.max_replies_per_hour
                 => Len(reply_timestamps_since(state, now + (last.hours + 1) * PerSecond, 1))
                        < config.max_replies_per_hour

\* the caller waited the seconds returned and is still refused by the hourly
\* limit
C34_StillRefused ==
    /\ last.op = "waited" /\ last.hours > 0
    /\ ~last.can_send
    /\ HourlyLimitBlocks


(***************************************************************************)
(* scripts/enable_bot.py against a live orchestrator (specification Spec). *)
(* The script's StateManager loads the file, clears the flag and saves;    *)
(* the orchestrator's StateManager keeps the document it loaded at         *)
(* construction, answers is_bot_disabled() from it and writes the whole of *)
(* it on every save.                                                       *)
(***************************************************************************)
EnabledOnDisk == ~is_bot_disabled(_load(file))

\* C35: an enable written to the state file by a second StateManager is never
\* lost: while the file says enabled, a message the orchestrator handles
\* without detecting a stop keyword leaves the file enabled and is not answered
\* with the 'Bot disabled' outcome.
C35_EnableNotLost ==
    [][(/\ EnabledOnDisk
        /\ last'.op = "process_message"
        /\ last'.decision # "STOP_DETECTED")
          => /\ ~is_bot_disabled(_load(file'))
             /\ ~HasPrefix(S_BotDisabled, last'.reason)]_vars

\* the part that holds: the enable is seen by an orchestrator constructed after
\* it, which loads the file
C35_EnableSeenAfterRestart ==
    [][(EnabledOnDisk /\ last'.op = "restart")
          => ~is_bot_disabled(state')]_vars


(***************************************************************************)
(* record_reply_sent when pruning raises (specification SpecLog).          *)
(***************************************************************************)
StoredReplies(doc) == Get(Get(doc, "rate_limit", EmptyDict), "reply_timestamps", <<>>)

TotalReplies(doc) == Get(get_statistics(doc), "total_replies_sent", 0)

\* C37: record_reply_sent is all-or-nothing: when it raises, the in-memory
\* reply_timestamps and total_replies_sent are as before the call; otherwise
\* the new timestamp and the counter increment are applied and saved together.
C37_AllOrNothing ==
    [][last'.op = "record_reply_sent"
          => IF last'.raised
             THEN /\ StoredReplies(state') = StoredReplies(state)
                  /\ TotalReplies(state') = TotalReplies(state)
             ELSE /\ TotalReplies(state') = TotalReplies(state) + 1
                  /\ file' = FileOf(state')]_vars

\* the part that holds: a call that raises leaves the counter and the file as
\* they were, and a call that returns has counted the reply, has kept its
\* timestamp when that is inside the 24 hours, and has saved both
C37_CounterAndFileTogether ==
    [][last'.op = "record_reply_sent"
          => IF last'.raised
             THEN /\ TotalReplies(state') = TotalReplies(state)
                  /\ file' = file
             ELSE /\ TotalReplies(state') = TotalReplies(state) + 1
                  /\ last'.timestamp > now - HoursPerDay * SecondsPerHour
                        => StoredReplies(state')[Len(StoredReplies(state'))]
                               = isoformat(last'.timestamp)
                  /\ file' = FileOf(state')]_vars

\* a call has raised and the in-memory list is one entry longer than the list
\* in the file
C37_AppendedThenRaised ==
    /\ last.op = "record_reply_sent"
    /\ last.raised
    /\ Len(StoredReplies(state)) = Len(StoredReplies(_load(file))) + 1


(***************************************************************************)
(* main.py: what a send leaves in the state (specification SpecSend).      *)
(* One StateManager, constructed on a missing file or on a file whose      *)
(* reply log holds a garbled entry; config is the dry_run switch.  A       *)
(* handler ends with no reply text, with the dry-run log line, with the    *)
(* transport having sent the text, or with the transport raising.          *)
(***************************************************************************)
MaxSends == 2

SendOutcomes(cfg) ==
    IF cfg.dry_run THEN {"no reply", "dry run"}
    ELSE {"no reply", "replied", "send failed"}

\* WhatsAppAssistant.check_proactive_message() on the document: after the
\* send, the unanswered count, the reply record and the history entry; the
\* ValueError of record_reply_sent is caught at the end and skips the entry
check_proactive_message(doc, outcome, now_) ==
    LET counted == increment_unanswered_proactive(doc)
        recorded == record_reply_sent(counted, now_, now_)
    IN  IF outcome # "replied" THEN doc
        ELSE IF record_reply_sent_raises(counted) THEN recorded
        ELSE add_message_to_history(recorded, B_blank, TRUE, now_, DefaultMaxHistory)

InitSend ==
    /\ config \in {[dry_run |-> d] : d \in BOOLEAN}
    /\ file \in {FileMissing, FileOf(GarbledLog)}
    /\ state = _load(file)
    /\ now = 0
    /\ last = NoCall

\* process_message(message) for a message that arrives now; when
\* record_reply_sent raises, the last save was the one before it
HandleMessage(outcome) ==
    /\ Get(get_statistics(state), "total_messages_processed", 0) < MaxSends
    /\ state' = process_message(state, [id |-> 1, timestamp |-> isoformat(now)], outcome, now)
    /\ file' = IF outcome = "replied" /\ record_reply_sent_raises(state)
               THEN _save(Put(state', "rate_limit", state.rate_limit), file, TRUE)
               ELSE _save(state', file, TRUE)
    /\ last' = [NoCall EXCEPT !.op = "process_message", !.key = outcome,
                              !.sent = (outcome = "replied"),
                              !.raised = (outcome = "replied" /\ record_reply_sent_raises(state))]
    /\ UNCHANGED <<config, now>>

\* check_proactive_message()
ProactiveSend(outcome) ==
    /\ state.proactive.unanswered_proactive_count < MaxSends
    /\ state' = check_proactive_message(state, outcome, now)
    /\ file' = IF outcome = "replied" /\ ~record_reply_sent_raises(state)
               THEN _save(state', file, TRUE)
               ELSE IF outcome = "replied"
               THEN _save(increment_unanswered_proactive(state), file, TRUE)
               ELSE file
    /\ last' = [NoCall EXCEPT !.op = "check_proactive_message", !.key = outcome,
                              !.sent = (outcome = "replied"),
                              !.raised = (outcome = "replied" /\ record_reply_sent_raises(state))]
    /\ UNCHANGED <<config, now>>

NextSend ==
    \/ \E outcome \in SendOutcomes(config) : HandleMessage(outcome)
    \/ \E outcome \in SendOutcomes(config) : ProactiveSend(outcome)
    \/ AdvanceClock

SpecSend == InitSend /\ [][NextSend]_vars

\* the entries of the history that are mine
FromMe(doc) == SelectSeq(Get(doc, "message_history", <<>>), LAMBDA m : m.from_me)

\* the replies of the last 24 hours in the log
Logged(doc) == Len(get_reply_timestamps(doc, now, HoursPerDay))

\* C36: a reply is recorded (one reply_timestamps entry and
\* total_replies_sent + 1) exactly once per message the transport sent, reply
\* or proactive, and never after a dry run, a failed send or no reply; the
\* history gains a from_me entry in the same case only.
C36_RecordedIffSent ==
    [][last'.op \in {"process_message", "check_proactive_message"}
          => IF last'.sent
             THEN /\ Logged(state') = Logged(state) + 1
                  /\ TotalReplies(state') = TotalReplies(state) + 1
                  /\ Len(FromMe(state')) = Len(FromMe(state)) + 1
             ELSE /\ StoredReplies(state') = StoredReplies(state)
                  /\ TotalReplies(state') = TotalReplies(state)
                  /\ FromMe(state') = FromMe(state)]_vars

\* the part that holds: nothing is recorded without a send, and a send after
\* which record_reply_sent returns is recorded once, with its history entry
C36_RecordedWhenReturned ==
    [][last'.op \in {"process_message", "check_proactive_message"}
          => IF last'.sent /\ ~last'.raised
             THEN /\ Logged(state') = Logged(state) + 1
                  /\ TotalReplies(state') = TotalReplies(state) + 1
                  /\ Len(FromMe(state')) = Len(FromMe(state)) + 1
             ELSE /\ TotalReplies(state') = TotalReplies(state)
                  /\ FromMe(state') = FromMe(state)
                  /\ ~last'.sent => StoredReplies(state') = StoredReplies(state)]_vars

\* a reply went out and neither the counter nor the history shows it
C36_SentUncounted ==
    /\ last.sent
    /\ last.raised
    /\ TotalReplies(state) = 0
    /\ FromMe(state) = <<>>


(***************************************************************************)
(* main.py: poll_loop and stop() (specification SpecLoop).  state is the   *)
(* loop: where it stands (pc), self.running, the shutdown event, the local *)
(* consecutive_errors, the backoff it sleeps, the messages of the fetch    *)
(* still to process, and two counts kept beside the program: the poll      *)
(* cycles that failed in a row, and those of them that failed connecting.  *)
(* config is the polling interval.  connect() raises what the MCP library  *)
(* raises, never WhatsAppClientError; get_new_messages raises              *)
(* WhatsAppClientError out of _call_tool or another exception out of the   *)
(* parsing of the result.                                                  *)
(***************************************************************************)
max_consecutive_errors == 5

MaxBackoff == 300

DefaultPollingInterval == 30

MaxCycles == 6

backoff_after(polling_interval, consecutive_errors) ==
    IF polling_interval * (2 ^ (consecutive_errors - 1)) < MaxBackoff
    THEN polling_interval * (2 ^ (consecutive_errors - 1))
    ELSE MaxBackoff

\* a variant of the loop test that goes on whatever self.running says
loop_test_always(running) == TRUE

\* while self.running:
loop_test(running) == running

\* except WhatsAppClientError / except Exception of poll_loop: the counter,
\* the stop at max_consecutive_errors, and then the backoff sleep with
\* continue for the first class, the inter-poll wait for the other
on_error(loop, polling_interval, class, connecting) ==
    LET n == loop.consecutive_errors + 1
        counted == [loop EXCEPT !.consecutive_errors = n,
                                !.failed_cycles = @ + 1,
                                !.failed_connects = IF connecting THEN @ + 1 ELSE 0,
                                !.pending = 0]
    IN  IF n >= max_consecutive_errors
        THEN [counted EXCEPT !.running = FALSE, !.pc = "exited"]
        ELSE IF class = "WhatsAppClientError"
        THEN [counted EXCEPT !.pc = "backoff", !.backoff = backoff_after(polling_interval, n)]
        ELSE [counted EXCEPT !.pc = "wait"]

InitLoop ==
    /\ config \in {[polling_interval |-> p] : p \in {DefaultPollingInterval, 10 * DefaultPollingInterval + 100}}
    /\ file = FileMissing
    /\ state = [pc |-> "while", running |-> TRUE, shutdown |-> FALSE,
                consecutive_errors |-> 0, backoff |-> 0, pending |-> 0,
                cycles |-> 0, failed_cycles |-> 0, failed_connects |-> 0]
    /\ now = 0
    /\ last = NoCall

LoopStep(op, loop) ==
    /\ state' = loop
    /\ last' = [NoCall EXCEPT !.op = op]
    /\ UNCHANGED <<config, file, now>>

\* the test of the while loop
LoopTest ==
    /\ state.pc = "while"
    /\ loop_test(state.running) => state.cycles < MaxCycles
    /\ LoopStep("while",
                IF loop_test(state.running)
                THEN [state EXCEPT !.pc = "connect", !.cycles = @ + 1, !.backoff = 0]
                ELSE [state EXCEPT !.pc = "exited"])

\* async with self.whatsapp_client.connect(): the counter goes to 0 as soon
\* as the connection stands
Connect(ok) ==
    /\ state.pc = "connect"
    /\ LoopStep("connect",
                IF ok THEN [state EXCEPT !.pc = "fetch", !.consecutive_errors = 0]
                ELSE on_error(state, config.polling_interval, "Exception", TRUE))

\* get_new_messages(...)
FetchMessages(outcome, n) ==
    /\ state.pc = "fetch"
    /\ LoopStep("fetch",
                IF outcome = "ok" THEN [state EXCEPT !.pc = "process", !.pending = n]
                ELSE on_error(state, config.polling_interval, outcome, FALSE))

\* for message in new_messages: process_message(message), and after the last
\* one check_proactive_message(); neither raises, and the cycle has passed
\* without error
ProcessMessages ==
    /\ state.pc = "process"
    /\ LoopStep("process",
                IF state.pending > 0 THEN [state EXCEPT !.pending = @ - 1]
                ELSE [state EXCEPT !.pc = "wait", !.failed_cycles = 0, !.failed_connects = 0])

\* asyncio.sleep(backoff) ends; continue
BackoffOver ==
    /\ state.pc = "backoff"
    /\ LoopStep("backoff", [state EXCEPT !.pc = "while"])

\* wait_for(shutdown_event.wait(), timeout = polling_interval): break when
\* the event is set, the next turn of the loop at the timeout
WaitOver ==
    /\ state.pc = "wait"
    /\ LoopStep("wait", [state EXCEPT !.pc = IF state.shutdown THEN "exited" ELSE "while"])

\* stop(), from the signal handler, wherever the loop stands
Stop ==
    /\ ~state.shutdown
    /\ state.pc # "exited"
    /\ LoopStep("stop", [state EXCEPT !.running = FALSE, !.shutdown = TRUE])

LoopRuns ==
    \/ LoopTest
    \/ \E ok \in BOOLEAN : Connect(ok)
    \/ \E outcome \in {"ok", "WhatsAppClientError", "Exception"}, n \in 0..MaxMessages :
          (outcome # "ok" => n = 0) /\ FetchMessages(outcome, n)
    \/ ProcessMessages
    \/ BackoffOver
    \/ WaitOver

NextLoop == LoopRuns \/ Stop

SpecLoop == InitLoop /\ [][NextLoop]_vars

\* every awaited call of the loop ends: the connection, the fetch, the
\* handling of a message, the sleeps
FairLoop == SpecLoop /\ WF_vars(LoopRuns)

AtCycleEnd == state.pc \in {"while", "backoff", "wait", "exited"}

\* C38: poll_loop stops once 5 poll cycles in a row have failed, be it while
\* connecting or after the connection stood; the counter is 0 only after a
\* cycle without error, so between cycles it is the number of cycles that
\* failed in a row; each WhatsAppClientError backoff is
\* min(polling_interval * 2^(n-1), 300).
C38_StopsAfterFiveFailures ==
    /\ state.failed_cycles >= max_consecutive_errors
          => ~state.running /\ state.pc = "exited"
    /\ AtCycleEnd => state.consecutive_errors = state.failed_cycles
    /\ state.pc = "backoff"
          => state.backoff = backoff_after(config.polling_interval, state.consecutive_errors)

\* the part that holds: the loop stops once the counter is 5, which 5 cycles
\* in a row that fail connecting bring about; the backoff follows the formula
C38_StopsAfterFiveConnects ==
    /\ state.consecutive_errors >= max_consecutive_errors
          => ~state.running /\ state.pc = "exited"
    /\ state.failed_connects >= max_consecutive_errors
          => ~state.running /\ state.pc = "exited"
    /\ state.pc = "backoff"
          => state.backoff = backoff_after(config.polling_interval, state.consecutive_errors)

\* six cycles in a row have failed after the connection stood, and the loop
\* sleeps its first backoff again
C38_StillPolling ==
    /\ state.failed_cycles = MaxCycles
    /\ state.running
    /\ state.pc = "backoff"
    /\ state.consecutive_errors = 1


\* once stop() has been called the loop comes to its end
ExitsAfterStop == state.shutdown ~> (state.pc = "exited")

max_retries == 3

base_delay == 1

\* the retry_after values of a RateLimitError: none, 0 and a number of seconds
RetryAfterSeconds == 7

RetryAfters == {None, Some(0), Some(RetryAfterSeconds)}

CallOutcomes ==
    {[kind |-> k, retry_after |-> None] :
        k \in {"ok", "APITimeoutError", "APIStatusError 401", "APIStatusError 500",
               "APIConnectionError", "KeyError"}}
    \cup {[kind |-> "RateLimitError", retry_after |-> r] : r \in RetryAfters}

ApiErrors ==
    {"RateLimitError", "APITimeoutError", "APIStatusError 401", "APIStatusError 500",
     "APIConnectionError"}

exponential_delay(attempt) == base_delay * (2 ^ (attempt - 1))

\* a variant for which no attempt is the last one
is_last_attempt_never(attempt) == FALSE

\* attempt == self.max_retries
is_last_attempt(attempt) == attempt = max_retries

\* one turn of the for loop: what the try and its except clauses make of the
\* outcome of func(*args, **kwargs) at this attempt
retry_turn(attempt, outcome) ==
    LET sleep(delay) == [ends |-> "sleep", raised |-> None, delay |-> delay]
        raise(error) == [ends |-> "raise", raised |-> Some(error), delay |-> 0]
        kind == outcome.kind
    IN  IF kind = "ok" THEN [ends |-> "return", raised |-> None, delay |-> 0]
        ELSE IF kind = "RateLimitError"
        THEN IF is_last_attempt(attempt) THEN raise("ClaudeClientError")
             ELSE IF ~IsNone(outcome.retry_after) /\ TheValue(outcome.retry_after) # 0
             THEN sleep(TheValue(outcome.retry_after))
             ELSE sleep(exponential_delay(attempt))
        ELSE IF kind = "APITimeoutError"
        THEN IF is_last_attempt(attempt) THEN raise("ClaudeClientError")
             ELSE sleep(exponential_delay(attempt))
        ELSE IF kind = "APIConnectionError" THEN raise("AttributeError")
        ELSE IF kind = "APIStatusError 401" THEN raise("ClaudeClientError")
        ELSE IF kind = "APIStatusError 500"
        THEN IF is_last_attempt(attempt) THEN raise("ClaudeClientError")
             ELSE sleep(exponential_delay(attempt))
        ELSE raise(kind)

InitRetry ==
    /\ config = [max_retries |-> max_retries, base_delay |-> base_delay]
    /\ file = FileMissing
    /\ state = [attempt |-> 1, status |-> "running", outcomes |-> <<>>,
                slept |-> <<>>, raised |-> None]
    /\ now = 0
    /\ last = NoCall

\* one attempt: the call, the sleep of the except clause that retries, and
\* the step of the for loop, which ends the function with None once
\* range(1, max_retries + 1) is used up
Attempt(outcome) ==
    \E turn \in {retry_turn(state.attempt, outcome)} :
        /\ state.status = "running"
        /\ state.attempt <= max_retries
        /\ state' = [attempt |-> IF turn.ends = "sleep" THEN state.attempt + 1 ELSE state.attempt,
                     status |-> CASE turn.ends = "sleep" /\ state.attempt < max_retries -> "running"
                                  [] turn.ends = "sleep" -> "fell out"
                                  [] turn.ends = "return" -> "returned"
                                  [] OTHER -> "raised",
                     outcomes |-> Append(state.outcomes, outcome.kind),
                     slept |-> IF turn.ends = "sleep" THEN Append(state.slept, turn.delay)
                               ELSE state.slept,
                     raised |-> turn.raised]
        /\ now' = now + turn.delay
        /\ last' = [NoCall EXCEPT !.op = "attempt", !.key = outcome.kind]
        /\ UNCHANGED <<config, file>>

\* the next use of _retry_with_backoff
NextRun ==
    /\ state.status # "running"
    /\ state' = [attempt |-> 1, status |-> "running", outcomes |-> <<>>,
                 slept |-> <<>>, raised |-> None]
    /\ now' = 0
    /\ last' = [NoCall EXCEPT !.op = "run"]
    /\ UNCHANGED <<config, file>>

NextRetry ==
    \/ \E outcome \in CallOutcomes : Attempt(outcome)
    \/ NextRun

SpecRetry == InitRetry /\ [][NextRetry]_vars

Calls_made == Len(state.outcomes)

LastOutcome == state.outcomes[Len(state.outcomes)]

\* C40: at most max_retries calls; the run ends returning the result or, for
\* an API error, raising ClaudeClientError; a 401 ends it at once, without a
\* retry; any other API failure is retried after base_delay * 2^(attempt-1)
\* and raises after the third failed attempt; no path falls out of the loop.
C40_RetryBounded ==
    /\ Calls_made <= max_retries
    /\ state.status # "fell out"
    /\ state.status = "returned" => LastOutcome = "ok"
    /\ (state.status = "raised" /\ LastOutcome \in ApiErrors)
          => /\ state.raised = Some("ClaudeClientError")
             /\ LastOutcome # "APIStatusError 401" => Calls_made = max_retries
    /\ \A i \in 1..Calls_made :
          state.outcomes[i] = "APIStatusError 401"
              => i = Calls_made /\ state.status = "raised"
    /\ \A i \in 1..Len(state.slept) : state.slept[i] = exponential_delay(i)

\* the part that holds: at most max_retries calls, no fall out of the loop, a
\* return only with the result, a 401 never retried, ClaudeClientError after
\* the third failed attempt, for every API error that has a status code or
\* is a timeout, and the exponential delay wherever no retry_after is given
C40_RetryBoundedWithStatus ==
    /\ Calls_made <= max_retries
    /\ state.status # "fell out"
    /\ state.status = "returned" => LastOutcome = "ok"
    /\ (state.status = "raised" /\ LastOutcome \in ApiErrors \ {"APIConnectionError"})
          => /\ state.raised = Some("ClaudeClientError")
             /\ LastOutcome # "APIStatusError 401" => Calls_made = max_retries
    /\ \A i \in 1..Calls_made :
          state.outcomes[i] = "APIStatusError 401"
              => i = Calls_made /\ state.status = "raised"
    /\ \A i \in 1..Len(state.slept) :
          state.slept[i] # exponential_delay(i)
              => /\ state.outcomes[i] = "RateLimitError"
                 /\ state.slept[i] = RetryAfterSeconds
    /\ state.status = "running" => state.attempt <= max_retries

\* a connection error ended the run at the first attempt with an exception
\* that is not ClaudeClientError
C40_AttributeErrorEscapes ==
    /\ state.status = "raised"
    /\ Calls_made = 1
    /\ LastOutcome = "APIConnectionError"
    /\ state.raised = Some("AttributeError")
====
